---------------------------- MODULE Spec2Model ----------------------------
(***************************************************************************)
(* Model of the AI Trip Designer provider pipeline: the expiring key-value *)
(* cache (cache.ts), the capability providers with their three-tier        *)
(* resolution (providers/*.ts) and the provenance reduction of mcp.ts.     *)
(*                                                                         *)
(* Time is counted in hours: the only operations the code performs on      *)
(* Date.now() are an addition (set) and a strict comparison (get).         *)
(***************************************************************************)
EXTENDS Integers, Sequences, FiniteSets, TLC

VARIABLES
    now,        \* Date.now()
    store,      \* TTLCache.store : the Map from cache key to CacheRecord
    lastSet,    \* history: per key, the latest set(key, ...) performed
    lastOp,     \* history: the latest cache operation and what it returned
    tags,       \* context.providersUsed (a Set iterates in insertion order)
    meta,       \* ToolMeta returned by providersFromContext (NoMeta before the call)
    cfg,        \* TripToolset.providerConfig
    pc,         \* per request: the await it is suspended at
    input,      \* per request: the validated tool input
    ctx,        \* per request: context.providersUsed
    loc,        \* per request: the local variables of the tool handler
    call,       \* history, per request: the provider invocation in progress or last made
    resp,       \* per request: the outcome of the tool call
    served,     \* number of tool calls answered so far
    applied     \* the latest application of a synchronous helper of mcp.ts: arguments and result

cacheVars == <<now, store, lastSet, lastOp>>
metaVars == <<tags, meta>>
reqVars == <<cfg, pc, input, ctx, loc, call, resp, served>>
vars == <<now, store, lastSet, lastOp, tags, meta, cfg, pc, input, ctx, loc, call, resp, served,
         applied>>

(***************************************************************************)
(* Bounds of the model                                                     *)
(***************************************************************************)
MaxNow == 7
MaxTtlOpt == 1
MaxTags == 3

(***************************************************************************)
(* cache.ts                                                                *)
(***************************************************************************)
\* constructor(private defaultTtlMs = 1000 * 60 * 60 * 6): six hours
DefaultTtl == 6

Undefined == [undefined |-> TRUE]
NoRecord == [absent |-> TRUE]

CacheRecord(value, expiresAt) == [value |-> value, expiresAt |-> expiresAt]

\* this.store.get(key)
store_get(s, key) == IF key \in DOMAIN s THEN s[key] ELSE NoRecord

\* this.store.delete(key)
store_delete(s, key) == [k \in DOMAIN s \ {key} |-> s[k]]

\* this.store.set(key, record)
store_put(s, key, record) ==
    [k \in DOMAIN s \cup {key} |-> IF k = key THEN record ELSE s[k]]

\* record.expiresAt < Date.now()
IsExpired(record, t) == record.expiresAt < t

\* get: the value returned
get_value(s, key, t) ==
    LET record == store_get(s, key)
    IN IF record = NoRecord THEN Undefined
       ELSE IF IsExpired(record, t) THEN Undefined
       ELSE record.value

\* get: the store it leaves (an expired record is deleted)
get_store_keep(s, key, t) == s
get_store(s, key, t) ==
    LET record == store_get(s, key)
    IN IF record # NoRecord /\ IsExpired(record, t)
       THEN store_delete(s, key)
       ELSE s

\* a set that never looks at its options
ttl_of_default(options) == DefaultTtl

\* const ttl = options?.ttlMs ?? this.defaultTtlMs
ttl_of(options) == IF options = Undefined THEN DefaultTtl ELSE options.ttlMs

\* a set that leaves an entry that is there alone
set_store_ifabsent(s, key, value, options, t) ==
    IF key \in DOMAIN s THEN s
    ELSE store_put(s, key, CacheRecord(value, t + ttl_of(options)))

\* set: the store it leaves
set_store_noexpiry(s, key, value, options, t) ==
    store_put(s, key, CacheRecord(value, t))
set_store(s, key, value, options, t) ==
    store_put(s, key, CacheRecord(value, t + ttl_of(options)))

(***************************************************************************)
(* A harness for the cache alone: any client may get, set and let time pass *)
(***************************************************************************)
HKeys == {"k1", "k2"}
HValues == {[v |-> 1], [v |-> 2]}
CacheOptions == {Undefined} \cup {[ttlMs |-> n] : n \in 0..MaxTtlOpt}

NoSet == [never |-> TRUE]
NoOp == [op |-> "none"]
NoMeta == [none |-> TRUE]
EmptyStore == [k \in {} |-> NoRecord]

\* the server before any tool call: no request in flight
Reqs == {1, 2}
NoConfig == [openTripMap |-> FALSE, amadeus |-> FALSE, booking |-> FALSE]
NoCall ==
    [prov |-> "none", key |-> << >>, cachedBefore |-> Undefined, state |-> "none",
     tier |-> "none", own |-> {}, nested |-> {}, ext |-> << >>, ret |-> Undefined,
     at |-> 0, failed |-> FALSE, tiers |-> {}, nestedAll |-> {}]
\* no helper was applied
NoApplication == [fn |-> "none"]

ReqIdle ==
    /\ pc = [r \in Reqs |-> "idle"]
    /\ input = [r \in Reqs |-> Undefined]
    /\ ctx = [r \in Reqs |-> <<>>]
    /\ loc = [r \in Reqs |-> Undefined]
    /\ call = [r \in Reqs |-> NoCall]
    /\ resp = [r \in Reqs |-> Undefined]
    /\ served = 0

CacheInit ==
    /\ now = 0
    /\ store = EmptyStore
    /\ lastSet = [k \in HKeys |-> NoSet]
    /\ lastOp = NoOp
    /\ tags = <<>>
    /\ meta = NoMeta
    /\ cfg = NoConfig
    /\ ReqIdle
    /\ applied = NoApplication

Get(key) ==
    /\ lastOp' = [op |-> "get", key |-> key, at |-> now,
                  result |-> get_value(store, key, now)]
    /\ store' = get_store(store, key, now)
    /\ UNCHANGED <<applied, now, lastSet, metaVars, reqVars>>

Set(key, value, options) ==
    /\ store' = set_store(store, key, value, options, now)
    /\ lastSet' = [lastSet EXCEPT ![key] =
                      [value |-> value, at |-> now, ttl |-> ttl_of(options)]]
    \* replaced: the set found a live entry that held another value
    /\ lastOp' = [op |-> "set", key |-> key, at |-> now,
                  replaced |-> /\ get_value(store, key, now) # Undefined
                               /\ get_value(store, key, now) # value]
    /\ UNCHANGED <<applied, now, metaVars, reqVars>>

\* Date.now() is read from a clock that only moves forward
Tick(d) ==
    /\ now + d <= MaxNow
    /\ now' = now + d
    /\ UNCHANGED <<applied, store, lastSet, lastOp, metaVars, reqVars>>

CacheNext ==
    \/ \E k \in HKeys : Get(k)
    \/ \E k \in HKeys, v \in HValues, o \in CacheOptions : Set(k, v, o)
    \/ \E d \in {1, DefaultTtl} : Tick(d)

SpecCache == CacheInit /\ [][CacheNext]_vars

(***************************************************************************)
(* mcp.ts: provenance.  A tag or a display name is written as the tuple of *)
(* its parts between colons: "cache:flights" is <<"cache", "flights">>,    *)
(* "amadeus" is <<"amadeus">>.                                             *)
(***************************************************************************)
Range(seq) == {seq[i] : i \in 1..Len(seq)}

\* an add that drops what the set held
SetAdd_alone(set, tag) == << tag >>

\* Set.prototype.add: a new element goes last, a present one stays where it is
SetAdd(set, tag) == IF tag \in Range(set) THEN set ELSE Append(set, tag)

\* name.startsWith('cache:')
startsWithCache(name) == Len(name) >= 2 /\ name[1] = "cache"

\* the tags the providers add (providers/*.ts)
ProviderTags ==
    { <<"cache", "open-meteo">>, <<"cache", "flights">>, <<"cache", "stays">>,
      <<"cache", "opentripmap">>,
      <<"open-meteo">>, <<"weather", "mock">>,
      <<"amadeus">>, <<"flights", "mock">>,
      <<"stays", "mock">>,
      <<"opentripmap">>, <<"opentripmap", "mock">> }

\* a mapping that forgets the ":mock" suffix of the OpenTripMap and weather tags
formatProviderName_live(name) ==
    CASE name = <<"amadeus">> -> <<"Amadeus">>
      [] name \in {<<"opentripmap", "mock">>, <<"opentripmap">>} -> <<"OpenTripMap">>
      [] name = <<"stays", "mock">> -> <<"Mock stays">>
      [] name = <<"flights", "mock">> -> <<"Mock flights">>
      [] name \in {<<"weather", "mock">>, <<"open-meteo">>} -> <<"Open-Meteo">>
      [] OTHER -> IF startsWithCache(name) THEN <<"cache->">> \o Tail(name) ELSE name

formatProviderName(name) ==
    CASE name = <<"amadeus">> -> <<"Amadeus">>
      [] name = <<"opentripmap", "mock">> -> <<"OpenTripMap (mock)">>
      [] name = <<"opentripmap">> -> <<"OpenTripMap">>
      [] name = <<"stays", "mock">> -> <<"Mock stays">>
      [] name = <<"flights", "mock">> -> <<"Mock flights">>
      [] name = <<"weather", "mock">> -> <<"Weather (mock)">>
      [] name = <<"open-meteo">> -> <<"Open-Meteo">>
      [] OTHER -> \* name.replace(/cache:/, 'cache->')
            IF startsWithCache(name) THEN <<"cache->">> \o Tail(name) ELSE name

NotCache(name) == ~startsWithCache(name)

providersFromContext_every(providersUsed, t) ==
    LET kept == SelectSeq(providersUsed, NotCache)
        readableProviders == [i \in 1..Len(kept) |-> formatProviderName(kept[i])]
    IN [generatedAt |-> t,
        providers |-> IF Len(readableProviders) > 0 THEN readableProviders
                      ELSE << <<"mock-data">> >>,
        cached |-> \A i \in 1..Len(providersUsed) : startsWithCache(providersUsed[i])]

providersFromContext_anylength(providersUsed, t) ==
    LET kept == SelectSeq(providersUsed, NotCache)
        readableProviders == [i \in 1..Len(kept) |-> formatProviderName(kept[i])]
    IN [generatedAt |-> t,
        providers |-> IF Len(providersUsed) > 0 THEN readableProviders
                      ELSE << <<"mock-data">> >>,
        cached |-> \E i \in 1..Len(providersUsed) : startsWithCache(providersUsed[i])]

providersFromContext(providersUsed, t) ==
    LET kept == SelectSeq(providersUsed, NotCache)
        readableProviders == [i \in 1..Len(kept) |-> formatProviderName(kept[i])]
    IN [generatedAt |-> t,
        providers |-> IF Len(readableProviders) > 0 THEN readableProviders
                      ELSE << <<"mock-data">> >>,
        cached |-> \E i \in 1..Len(providersUsed) : startsWithCache(providersUsed[i])]

(***************************************************************************)
(* A harness for the reduction alone: tags are added to a fresh context in *)
(* any order, then the context is reduced to the response metadata.        *)
(***************************************************************************)
MetaInit ==
    /\ now = 0
    /\ store = EmptyStore
    /\ lastSet = [k \in HKeys |-> NoSet]
    /\ lastOp = NoOp
    /\ tags = <<>>
    /\ meta = NoMeta
    /\ cfg = NoConfig
    /\ ReqIdle
    /\ applied = NoApplication

AddTag(tag) ==
    /\ meta = NoMeta
    /\ Len(tags) < MaxTags
    /\ tags' = SetAdd(tags, tag)
    /\ UNCHANGED <<applied, cacheVars, meta, reqVars>>

Reduce ==
    /\ meta = NoMeta
    /\ meta' = providersFromContext(tags, now)
    /\ UNCHANGED <<applied, cacheVars, tags, reqVars>>

MetaNext ==
    \/ \E tag \in ProviderTags : AddTag(tag)
    \/ Reduce

SpecMeta == MetaInit /\ [][MetaNext]_vars

\* the tags with the cache prefix, spelled out
CacheTags ==
    { <<"cache", "open-meteo">>, <<"cache", "flights">>, <<"cache", "stays">>,
      <<"cache", "opentripmap">> }

(***************************************************************************)
(* C9: the cached flag is true iff at least one tag of the provenance set  *)
(* begins with "cache:"; the displayed list holds the display name of      *)
(* every non-cache tag of the set and the display name of no cache tag.    *)
(***************************************************************************)
C9_CachedFlagAndSources ==
    meta # NoMeta =>
       /\ meta.cached <=> (Range(tags) \cap CacheTags # {})
       /\ \A tag \in Range(tags) \ CacheTags :
             formatProviderName(tag) \in Range(meta.providers)
       /\ \A tag \in CacheTags :
             /\ formatProviderName(tag) \notin Range(meta.providers)
             /\ tag \notin Range(meta.providers)
       /\ Range(tags) \ CacheTags # {} =>
             Len(meta.providers) = Cardinality(Range(tags) \ CacheTags)

C9_Witness ==
    /\ meta # NoMeta
    /\ meta.cached
    /\ Range(tags) \cap CacheTags # {}
    /\ Cardinality(Range(tags) \ CacheTags) = 2
    /\ Len(meta.providers) = 2

(***************************************************************************)
(* C10: when the provenance set holds no non-cache tag (it is empty or     *)
(* holds only cache tags) the displayed list is exactly ["mock-data"];     *)
(* when it holds a non-cache tag, "mock-data" is not in the list.          *)
(***************************************************************************)
C10_MockDataSentinel ==
    meta # NoMeta =>
       IF Range(tags) \subseteq CacheTags
       THEN meta.providers = << <<"mock-data">> >>
       ELSE <<"mock-data">> \notin Range(meta.providers)

C10_Witness ==
    /\ meta # NoMeta
    /\ tags # <<>>
    /\ Range(tags) \subseteq CacheTags
    /\ meta.providers = << <<"mock-data">> >>
    /\ meta.cached

(***************************************************************************)
(* C6: after set(k, v) and with no later set on k, every get(k) performed  *)
(* before the TTL of that set has elapsed returns exactly v, whatever gets *)
(* and sets on other keys happened in between.                             *)
(***************************************************************************)
C6_GetWithinTtlReturnsStored ==
    (/\ lastOp.op = "get"
     /\ lastSet[lastOp.key] # NoSet
     /\ lastOp.at < lastSet[lastOp.key].at + lastSet[lastOp.key].ttl)
    => lastOp.result = lastSet[lastOp.key].value

C6_Witness ==
    /\ lastOp.op = "get"
    /\ lastSet[lastOp.key] # NoSet
    /\ lastOp.at > lastSet[lastOp.key].at
    /\ lastOp.at < lastSet[lastOp.key].at + lastSet[lastOp.key].ttl
    /\ \E k \in HKeys \ {lastOp.key} :
          /\ lastSet[k] # NoSet
          /\ lastSet[k].at > lastSet[lastOp.key].at
          /\ lastSet[k].value # lastSet[lastOp.key].value
    /\ lastOp.result = lastSet[lastOp.key].value

C8_AbsentFromExpiresAt ==
    (/\ lastOp.op = "get"
     /\ lastSet[lastOp.key] # NoSet
     /\ lastOp.at >= lastSet[lastOp.key].at + lastSet[lastOp.key].ttl)
    => lastOp.result = Undefined

(***************************************************************************)
(* Values.  A missing string is UndefS and a missing number UndefN (the    *)
(* value undefined where the type says string or number); NaN is the       *)
(* result of Number(undefined).  Coordinates are in units of 1e-6 degree,  *)
(* temperatures in tenths of a degree, dates are <<year, month, day>>.     *)
(***************************************************************************)
UndefS == "(undefined)"
UndefN == 0 - 1000000000
NaN == 0 - 2000000000

\* a successor that knows no leap years
NextDay_noleap(date) ==
    LET daysInMonth == IF date[2] = 2 THEN 28
                       ELSE IF date[2] \in {4, 6, 9, 11} THEN 30 ELSE 31
    IN IF date[3] < daysInMonth THEN <<date[1], date[2], date[3] + 1>>
       ELSE IF date[2] < 12 THEN <<date[1], date[2] + 1, 1>>
       ELSE <<date[1] + 1, 1, 1>>

NextDay(date) ==
    LET y == date[1]
        m == date[2]
        isLeap == (y % 4 = 0 /\ y % 100 # 0) \/ y % 400 = 0
        daysInMonth == IF m = 2 THEN (IF isLeap THEN 29 ELSE 28)
                       ELSE IF m \in {4, 6, 9, 11} THEN 30 ELSE 31
    IN IF date[3] < daysInMonth THEN <<y, m, date[3] + 1>>
       ELSE IF m < 12 THEN <<y, m + 1, 1>>
       ELSE <<y + 1, 1, 1>>

\* date.setUTCDate(date.getUTCDate() + days); date.toISOString().substring(0, 10)
RECURSIVE addDays(_, _)
addDays(start, days) == IF days <= 0 THEN start ELSE addDays(NextDay(start), days - 1)

\* city.toLowerCase() / params.origin.toUpperCase(), on the strings of the model
toLowerCase(str) ==
    CASE str = "Chiang Mai" -> "chiang mai"
      [] str = "CHIANG MAI" -> "chiang mai"
      [] str = "Temple" -> "temple"
      [] str = "Doi Suthep Temple" -> "doi suthep temple"
      [] str = "Wat Chedi Luang" -> "wat chedi luang"
      [] str = "Warorot Market" -> "warorot market"
      [] str = "Nimman Coffee Crawl" -> "nimman coffee crawl"
      [] OTHER -> str

toUpperCase(str) ==
    CASE str = "Chiang Mai" -> "CHIANG MAI"
      [] str = "chiang mai" -> "CHIANG MAI"
      [] str = "bkk" -> "BKK"
      [] str = "cnx" -> "CNX"
      [] OTHER -> str

\* Math.round of a non-negative quotient num / den
RoundDiv(num, den) == (2 * num + den) \div (2 * den)

(***************************************************************************)
(* What an external source may answer to one request: the fetch rejects    *)
(* ("error"), answers with a non-success status ("status"), or answers     *)
(* 2xx with a body ("ok"); the body may fail to parse as JSON (BadJson).   *)
(***************************************************************************)
BadJson == [badjson |-> TRUE]
Response(kind, body) == [kind |-> kind, body |-> body]
Failures == {Response("error", Undefined), Response("status", Undefined),
             Response("ok", BadJson)}

(***************************************************************************)
(* providers/places.ts: data                                               *)
(***************************************************************************)
MOCK_DESTINATION ==
    [name |-> "Chiang Mai", country |-> "Thailand", lat |-> 18788300, lon |-> 98985300]

\* obj.field of a parsed JSON object: undef when the object has no such property
Prop(obj, field, undef) == IF field \in DOMAIN obj THEN obj[field] ELSE undef

\* bodies of the geoname endpoint: a place, and the answer for an unknown name,
\* which carries none of the fields read at places.ts:206-211
GeoFound == [name |-> "Chiang Mai", country |-> "TH", lat |-> 18790400, lon |-> 98984700]
GeoNotFound == [status |-> "NOT_FOUND"]
GeonameResponses ==
    Failures \cup {Response("ok", GeoFound), Response("ok", GeoNotFound)}

Place(id, name, category, lat, lon, url, estMinutes) ==
    [id |-> id, name |-> name, category |-> category, lat |-> lat, lon |-> lon,
     url |-> url, estMinutes |-> estMinutes]

MOCK_PLACES ==
    << Place("mock-wat-phra-singh", "Wat Phra Singh", "temple", 18788889, 98981944,
             "https://goo.gl/maps/VWnvaQRcWtr", 90),
       Place("mock-wat-chedi-luang", "Wat Chedi Luang", "temple", 18786944, 98985556,
             "https://goo.gl/maps/6L3pCTrGhm12", 75),
       Place("mock-sunday-market", "Sunday Walking Street", "market", 18788300, 98985300,
             "https://goo.gl/maps/KTrgU5d5gNv", 120),
       Place("mock-elephant-nature-park", "Elephant Nature Park", "nature", 18936400, 98857600,
             "https://goo.gl/maps/1pVxS6c3hHB2", 240),
       Place("mock-doi-suthep", "Doi Suthep Temple", "temple", 18804600, 98921500,
             "https://goo.gl/maps/nc7ovjGpq8K2", 120),
       Place("mock-grand-canyon", "Grand Canyon Water Park", "adventure", 18646600, 98980700,
             "https://goo.gl/maps/tT9nVWyN7Aq", 180),
       Place("mock-warorot-market", "Warorot Market", "market", 18791000, 99001000,
             "https://goo.gl/maps/nsTfxcb5geT2", 90),
       Place("mock-nimman-coffee", "Nimman Coffee Crawl", "food", 18799000, 98967000,
             "https://goo.gl/maps/owS1iEZzu1L2", 120),
       Place("mock-night-safari", "Chiang Mai Night Safari", "wildlife", 18741700, 98923600,
             "https://goo.gl/maps/tiHXF6Uq7Kt", 150),
       Place("mock-cooking-class", "Thai Farm Cooking School", "food", 18810500, 99028800,
             "https://goo.gl/maps/LpLwVB1USwq", 240),
       Place("mock-artisan-village", "Bo Sang Umbrella Village", "culture", 18772700, 99085700,
             "https://goo.gl/maps/C2LKveJSu2R2", 120),
       Place("mock-night-market", "Chiang Mai Night Bazaar", "market", 18783700, 99000100,
             "https://goo.gl/maps/hSu7dYNEsD52", 150) >>

\* kinds is kept as the set of the words below that occur in it as substrings:
\* all that kinds.includes(...) can tell
mapKindsToCategory(kinds) ==
    IF "temples" \in kinds THEN "temple"
    ELSE IF "churches" \in kinds \/ "religion" \in kinds THEN "spiritual"
    ELSE IF "foods" \in kinds \/ "restaurants" \in kinds THEN "food"
    ELSE IF "natural" \in kinds THEN "nature"
    ELSE IF "cultural" \in kinds THEN "culture"
    ELSE IF "museums" \in kinds THEN "museum"
    ELSE IF "sport" \in kinds THEN "adventure"
    ELSE IF "amusements" \in kinds THEN "entertainment"
    ELSE IF "shopping" \in kinds THEN "shopping"
    ELSE "attraction"

mapKindsToDuration(kinds) ==
    IF "foods" \in kinds \/ "restaurants" \in kinds THEN 90
    ELSE IF "temples" \in kinds \/ "religion" \in kinds THEN 120
    ELSE IF "museums" \in kinds THEN 120
    ELSE IF "natural" \in kinds THEN 180
    ELSE 90

\* features of the radius endpoint; properties.name is "" when the place has none
Feature(xid, name, kinds, lon, lat) ==
    [xid |-> xid, name |-> name, kinds |-> kinds, lon |-> lon, lat |-> lat]

FeaturesNamed ==
    << Feature("N1", "Wat Lok Moli", {"religion", "temples"}, 98982500, 18796200),
       Feature("N2", "", {"foods"}, 98990000, 18790000),
       Feature("N3", "Khao Soi Khun Yai", {"foods", "restaurants"}, 98983000, 18795500) >>

RadiusResponses ==
    Failures \cup {Response("ok", [type |-> "FeatureCollection"]),
                   Response("ok", [features |-> << Feature("N2", "", {"foods"}, 98990000, 18790000) >>]),
                   Response("ok", [features |-> FeaturesNamed])}

NOTE_PLACES_NOKEY == "Using curated Chiang Mai attractions. Add an OpenTripMap key for live data."
NOTE_PLACES_FAILED == "OpenTripMap request failed, using curated Chiang Mai attractions."
NOTE_PLACES_EMPTY == "OpenTripMap returned no places, using curated Chiang Mai attractions."
NOTE_PLACES_ERRORED == "OpenTripMap request errored, using curated Chiang Mai attractions."

\* array.slice(0, n)
Slice(seq, n) == SubSeq(seq, 1, IF n < Len(seq) THEN n ELSE Len(seq))

(***************************************************************************)
(* providers/flights.ts: data                                              *)
(***************************************************************************)
FlightOption(carrier, from, to, depart, arrive, priceUSD, link) ==
    [carrier |-> carrier, from |-> from, to |-> to, depart |-> depart,
     arrive |-> arrive, priceUSD |-> priceUSD, link |-> link]

MOCK_FLIGHTS ==
    << [carrier |-> "Mock Air", priceUSD |-> 425, link |-> "https://example.com/mock-air"],
       [carrier |-> "Sample Airlines", priceUSD |-> 468, link |-> "https://example.com/sample-air"],
       [carrier |-> "Demo Jet", priceUSD |-> 512, link |-> "https://example.com/demo-jet"] >>


\* bodies of the token endpoint
TokenResponses ==
    Failures \cup {Response("ok", [error |-> "invalid_client"]),
                   Response("ok", [access_token |-> "token"])}

\* an offer of the flight-offers endpoint: price.total in cents (UndefN when
\* missing) and the segments of itineraries[0]; OfferBare has no itineraries
Offer(total, segments) == [total |-> total, segments |-> segments]
OfferBare(total) == [total |-> total]
Segment(from, to, carrier) ==
    [departure |-> [iataCode |-> from, at |-> "2025-11-20T09:00:00"],
     arrival |-> [iataCode |-> to, at |-> "2025-11-20T11:00:00"],
     carrierCode |-> carrier]

OffersTwo ==
    << Offer(31050, << Segment("BKK", "CNX", "TG") >>),
       Offer(29999, << Segment("BKK", "DMK", "FD"), Segment("DMK", "CNX", "FD") >>) >>
OffersSix ==
    << Offer(40000, << Segment("BKK", "CNX", "TG") >>),
       Offer(39000, << Segment("BKK", "CNX", "PG") >>),
       Offer(UndefN, << Segment("BKK", "CNX", "WE") >>),
       OfferBare(37000),
       Offer(36000, << Segment("BKK", "CNX", "FD") >>),
       Offer(12000, << Segment("BKK", "CNX", "SL") >>) >>
OffersNoItinerary == << OfferBare(25000), Offer(26000, << >>) >>

OffersResponses ==
    Failures \cup {Response("ok", [meta |-> "count 0"]),
                   Response("ok", [data |-> OffersNoItinerary]),
                   Response("ok", [data |-> OffersTwo]),
                   Response("ok", [data |-> OffersSix])}

(***************************************************************************)
(* providers/stays.ts: data                                                *)
(***************************************************************************)
Stay(name, type, rating10) == [name |-> name, type |-> type, rating |-> rating10]

MOCK_STAYS ==
    << Stay("Old Town Guesthouse", "budget", 44),
       Stay("Nimman Boutique Hotel", "mid", 46),
       Stay("Ping River Retreat", "premium", 48),
       Stay("Night Bazaar Lofts", "mid", 45),
       Stay("Doi Suthep View Villas", "premium", 49),
       Stay("Backpackers Hub Hostel", "budget", 42),
       Stay("Riverside Boutique Suites", "premium", 47),
       Stay("Garden Lane Homestay", "budget", 43),
       Stay("Craft Hotel Nimman", "mid", 46),
       Stay("Zen Garden Residence", "premium", 49) >>

basePrices(type) ==
    CASE type = "budget" -> 35
      [] type = "mid" -> 82
      [] type = "premium" -> 185


\* index is 0-based as in the source: priceAdjust = 1 + index * 0.05
\* a pricing that leaves the total at the price of one night
withPricing_oneNight(stays, params) ==
    [i \in 1..Len(stays) |->
        LET nightly == RoundDiv(basePrices(stays[i].type) * (100 + (i - 1) * 5), 100)
        IN [name |-> stays[i].name, type |-> stays[i].type, rating |-> stays[i].rating,
            pricePerNightUSD |-> nightly, totalUSD |-> nightly]]

withPricing(stays, params) ==
    [i \in 1..Len(stays) |->
        LET nightly == RoundDiv(basePrices(stays[i].type) * (100 + (i - 1) * 5), 100)
        IN [name |-> stays[i].name, type |-> stays[i].type, rating |-> stays[i].rating,
            pricePerNightUSD |-> nightly, totalUSD |-> nightly * params.nights]]

(***************************************************************************)
(* weather provider: data                                                  *)
(***************************************************************************)
\* bodies of the forecast endpoint: daily.time of n dates from start, with the
\* temperature arrays (hundredths of a degree) present or missing
WeatherBody(start, n, arrays) ==
    IF arrays
    THEN [time |-> [i \in 1..n |-> addDays(start, i - 1)],
          temperature_2m_max |-> [i \in 1..n |-> 3126 - 100 * i],
          temperature_2m_min |-> [i \in 1..n |-> 2114 - 100 * i],
          precipitation_probability_max |-> [i \in 1..n |-> 10 * i]]
    ELSE [time |-> [i \in 1..n |-> addDays(start, i - 1)]]

WeatherResponses(params) ==
    Failures \cup
    { Response("ok", [error |-> "reason"]),
      Response("ok", [daily |-> WeatherBody(params.startDate, 0, TRUE)]),
      Response("ok", [daily |-> WeatherBody(params.startDate, params.days, FALSE)]),
      Response("ok", [daily |-> WeatherBody(params.startDate, params.days, TRUE)]),
      Response("ok", [daily |-> WeatherBody(params.startDate, params.days + 1, TRUE)]) }

\* Number(x.toFixed(1)) of a non-negative temperature given in hundredths
toFixed1(hundredths) == RoundDiv(hundredths, 10)

\* a mock forecast that starts a day late and narrows with the index
buildMockWeather_drift(params) ==
    [daily |-> [i \in 1..params.days |->
                  [date |-> addDays(params.startDate, i),
                   hiC |-> (30 - (i - 1)) * 10,
                   loC |-> (30 - (i - 1) - 6) * 10 + (i - 1),
                   precipProb |-> 20 + (i - 1) * 5]]]

buildMockWeather(params) ==
    [daily |-> [i \in 1..params.days |->
                  [date |-> addDays(params.startDate, i - 1),
                   hiC |-> (30 - (i - 1)) * 10,
                   loC |-> (30 - (i - 1) - 6) * 10,
                   precipProb |-> 20 + (i - 1) * 5]]]


(***************************************************************************)
(* Providers.  An async function runs without interruption from one await  *)
(* to the next; each operator below is one such stretch of a provider and  *)
(* yields what the stretch leaves behind: whether the provider returned,   *)
(* is suspended on a request to an endpoint, or threw; the value returned; *)
(* context.providersUsed; the cache store; the tier that answered; the     *)
(* tags added by the provider's own statements (own) and by the            *)
(* resolveDestination call nested in it (nested).                          *)
(***************************************************************************)
Out(state, value, providersUsed, s, tier, own, nested, endpoint) ==
    [state |-> state, value |-> value, providersUsed |-> providersUsed, store |-> s,
     tier |-> tier, own |-> own, nested |-> nested, endpoint |-> endpoint]

Returned(value, providersUsed, s, tier, own, nested) ==
    Out("returned", value, providersUsed, s, tier, own, nested, "")
Awaiting(endpoint, value, providersUsed, s, nested) ==
    Out("await", value, providersUsed, s, "none", {}, nested, endpoint)
Threw(providersUsed, s, own, nested) ==
    Out("threw", Undefined, providersUsed, s, "none", own, nested, "")

\* variant of FromCache that leaves the provenance set alone
FromCache_silent(cached, tag, providersUsed, s) ==
    Returned(cached, providersUsed, s, "cache", {}, {})
\* if (cached) { context.providersUsed.add(tag); return cached; }
FromCache(cached, tag, providersUsed, s) ==
    Returned(cached, SetAdd(providersUsed, tag), s, "cache", {tag}, {})

\* variants of TagSetReturn: one that does not write the cache, one that adds
\* the OpenTripMap live tag as well
SkipCacheSet(value, tag, tier, key, providersUsed, s, t, nested) ==
    Returned(value, SetAdd(providersUsed, tag), s, tier, {tag}, nested)
TagBoth(value, tag, tier, key, providersUsed, s, t, nested) ==
    Returned(value, SetAdd(SetAdd(providersUsed, tag), <<"opentripmap">>),
             set_store(s, key, value, Undefined, t), tier, {tag, <<"opentripmap">>}, nested)
\* context.providersUsed.add(tag); context.cache.set(key, value); return value
TagSetReturn(value, tag, tier, key, providersUsed, s, t, nested) ==
    Returned(value, SetAdd(providersUsed, tag), set_store(s, key, value, Undefined, t),
             tier, {tag}, nested)

Failed(response) == response.kind # "ok" \/ response.body = BadJson

\* ---- resolveDestination (places.ts:171-225)
destKey(city) == <<"dest", toLowerCase(city)>>

resolveDestination_start(city, providersUsed, s, t, config) ==
    IF city = UndefS
    THEN Threw(providersUsed, s, {}, {})     \* city.toLowerCase() of undefined
    ELSE LET cached == get_value(s, destKey(city), t)
             s1 == get_store(s, destKey(city), t)
         IN IF cached # Undefined
            THEN FromCache(cached, <<"cache", "opentripmap">>, providersUsed, s1)
            ELSE IF ~config.openTripMap
            THEN TagSetReturn(MOCK_DESTINATION, <<"opentripmap", "mock">>, "mock",
                              destKey(city), providersUsed, s1, t, {})
            ELSE Awaiting("geoname", Undefined, providersUsed, s1, {})

resolveDestination_reply(city, providersUsed, s, t, response) ==
    IF Failed(response)
    THEN TagSetReturn(MOCK_DESTINATION, <<"opentripmap", "mock">>, "mock",
                      destKey(city), providersUsed, s, t, {})
    ELSE LET data == response.body
             destination == [name |-> Prop(data, "name", UndefS),
                             country |-> Prop(data, "country", UndefS),
                             lat |-> Prop(data, "lat", UndefN),
                             lon |-> Prop(data, "lon", UndefN)]
         IN TagSetReturn(destination, <<"opentripmap">>, "live",
                         destKey(city), providersUsed, s, t, {})

\* ---- weatherProvider
weatherKey(params) == <<"weather", params>>

weatherMock(params, providersUsed, s, t) ==
    TagSetReturn(buildMockWeather(params), <<"weather", "mock">>, "mock",
                 weatherKey(params), providersUsed, s, t, {})

\* a weather provider that never looks into the cache
weatherProvider_start_nocache(params, providersUsed, s, t) ==
    Awaiting("forecast", Undefined, providersUsed, s, {})

weatherProvider_start(params, providersUsed, s, t) ==
    LET cached == get_value(s, weatherKey(params), t)
        s1 == get_store(s, weatherKey(params), t)
    IN IF cached # Undefined
       THEN FromCache(cached, <<"cache", "open-meteo">>, providersUsed, s1)
       ELSE IF params.lat = UndefN \/ params.lon = UndefN
       THEN weatherMock(params, providersUsed, s1, t)   \* params.lat.toString() throws
       ELSE Awaiting("forecast", Undefined, providersUsed, s1, {})

weatherProvider_reply(params, providersUsed, s, t, response) ==
    IF Failed(response) THEN weatherMock(params, providersUsed, s, t)
    ELSE IF "daily" \notin DOMAIN response.body THEN weatherMock(params, providersUsed, s, t)
    ELSE LET daily == response.body.daily
         IN IF Len(daily.time) = 0 THEN weatherMock(params, providersUsed, s, t)
            ELSE IF "temperature_2m_max" \notin DOMAIN daily
                    \/ "temperature_2m_min" \notin DOMAIN daily
            THEN weatherMock(params, providersUsed, s, t)   \* indexing undefined throws
            ELSE LET days == [i \in 1..Len(daily.time) |->
                                [date |-> daily.time[i],
                                 hiC |-> IF i <= Len(daily.temperature_2m_max)
                                         THEN toFixed1(daily.temperature_2m_max[i]) ELSE NaN,
                                 loC |-> IF i <= Len(daily.temperature_2m_min)
                                         THEN toFixed1(daily.temperature_2m_min[i]) ELSE NaN,
                                 precipProb |->
                                    IF "precipitation_probability_max" \in DOMAIN daily
                                       /\ i <= Len(daily.precipitation_probability_max)
                                    THEN daily.precipitation_probability_max[i]
                                    ELSE UndefN]]
                 IN TagSetReturn([daily |-> days], <<"open-meteo">>, "live",
                                 weatherKey(params), providersUsed, s, t, {})

\* ---- searchFlightsProvider (flights.ts)
flightsKey(params) == <<"flights", params>>


\* params.origin.toUpperCase() / params.destination.toUpperCase() of undefined
upperCaseThrows(params) == params.origin = UndefS \/ params.destination = UndefS

buildMockFlights(params) ==
    LET carrier == <<"Mock Air A", "Sample Airlines B", "Demo Jet C">>
        departTime == <<"08:15", "13:15", "19:15">>
        arriveTime == <<"12:45", "17:45", "23:45">>
    IN [i \in 1..Len(MOCK_FLIGHTS) |->
          FlightOption(carrier[i], toUpperCase(params.origin), toUpperCase(params.destination),
                       <<params.departDate, departTime[i]>>, <<params.departDate, arriveTime[i]>>,
                       MOCK_FLIGHTS[i].priceUSD, MOCK_FLIGHTS[i].link)]

NullOption == [null |-> TRUE]

mapAmadeusOfferToOption(offer, fallback) ==
    IF "segments" \notin DOMAIN offer THEN NullOption
    ELSE IF Len(offer.segments) = 0 THEN NullOption
    ELSE LET firstSegment == offer.segments[1]
             lastSegment == offer.segments[Len(offer.segments)]
         IN FlightOption(firstSegment.carrierCode, firstSegment.departure.iataCode,
                         lastSegment.arrival.iataCode,
                         <<firstSegment.departure.at>>, <<lastSegment.arrival.at>>,
                         IF offer.total = UndefN THEN 0 ELSE RoundDiv(offer.total, 100),
                         UndefS)

\* lines 242-249; buildMockFlights throws after the tag was added
flightsMock(params, providersUsed, s, t) ==
    IF upperCaseThrows(params)
    THEN Threw(SetAdd(providersUsed, <<"flights", "mock">>), s, {<<"flights", "mock">>}, {})
    ELSE TagSetReturn([note |-> "Using mock flight data. Add Amadeus credentials to retrieve live fares.",
                       options |-> buildMockFlights(params)],
                      <<"flights", "mock">>, "mock", flightsKey(params), providersUsed, s, t, {})

searchFlightsProvider_start(params, providersUsed, s, t, config) ==
    LET cached == get_value(s, flightsKey(params), t)
        s1 == get_store(s, flightsKey(params), t)
    IN IF cached # Undefined
       THEN FromCache(cached, <<"cache", "flights">>, providersUsed, s1)
       ELSE IF ~config.amadeus
       THEN flightsMock(params, providersUsed, s1, t)
       ELSE Awaiting("token", Undefined, providersUsed, s1, {})

\* a token step that goes on to the offers query whatever the token endpoint answered
searchFlightsProvider_token_on(params, providersUsed, s, t, response) ==
    Awaiting("offers", Undefined, providersUsed, s, {})

\* fetchAmadeusToken answered; fetchAmadeusFlights goes on to the offers query
searchFlightsProvider_token(params, providersUsed, s, t, response) ==
    IF Failed(response) THEN flightsMock(params, providersUsed, s, t)
    ELSE IF Prop(response.body, "access_token", UndefS) \in {UndefS, ""}
    THEN flightsMock(params, providersUsed, s, t)
    ELSE IF upperCaseThrows(params)
    THEN flightsMock(params, providersUsed, s, t)
    ELSE Awaiting("offers", Undefined, providersUsed, s, {})

searchFlightsProvider_offers(params, providersUsed, s, t, response) ==
    IF Failed(response) THEN flightsMock(params, providersUsed, s, t)
    ELSE LET data == Slice(Prop(response.body, "data", << >>), 5)
             mapped == [i \in 1..Len(data) |-> mapAmadeusOfferToOption(data[i], params)]
             options == SelectSeq(mapped, LAMBDA option : option # NullOption)
         IN IF Len(options) = 0
            THEN flightsMock(params, providersUsed, s, t)
            ELSE TagSetReturn([options |-> options], <<"amadeus">>, "live",
                              flightsKey(params), providersUsed, s, t, {})

\* ---- searchStaysProvider (stays.ts): no await in it
staysKey(params) == <<"stays", params>>

searchStaysProvider_call(params, providersUsed, s, t, config) ==
    LET cached == get_value(s, staysKey(params), t)
        s1 == get_store(s, staysKey(params), t)
    IN IF cached # Undefined
       THEN FromCache(cached, <<"cache", "stays">>, providersUsed, s1)
       ELSE TagSetReturn([note |-> "Using curated Chiang Mai stays. Provide a Booking/Amadeus key to enable live inventory.",
                          options |-> withPricing(MOCK_STAYS, params)],
                         <<"stays", "mock">>, "mock", staysKey(params), providersUsed, s1, t, {})

\* ---- nearbyAttractionsProvider (places.ts:227-336)
placesKey(params) == <<"places", params>>
limitOf(params) == IF params.limit = UndefN THEN 12 ELSE params.limit

\* a fallback that returns the curated places without storing them
placesMock_uncached(note, params, providersUsed, s, t, nested) ==
    SkipCacheSet([note |-> note, options |-> Slice(MOCK_PLACES, limitOf(params))],
                 <<"opentripmap", "mock">>, "mock", placesKey(params), providersUsed, s, t, nested)

placesMock(note, params, providersUsed, s, t, nested) ==
    TagSetReturn([note |-> note, options |-> Slice(MOCK_PLACES, limitOf(params))],
                 <<"opentripmap", "mock">>, "mock", placesKey(params), providersUsed, s, t, nested)

nearbyAttractionsProvider_start(params, providersUsed, s, t, config) ==
    LET cached == get_value(s, placesKey(params), t)
        s1 == get_store(s, placesKey(params), t)
    IN IF cached # Undefined
       THEN FromCache(cached, <<"cache", "opentripmap">>, providersUsed, s1)
       ELSE IF ~config.openTripMap
       THEN placesMock(NOTE_PLACES_NOKEY, params, providersUsed, s1, t, {})
       ELSE LET d == resolveDestination_start(params.destination, providersUsed, s1, t, config)
            IN CASE d.state = "threw" ->
                      placesMock(NOTE_PLACES_ERRORED, params, providersUsed, s1, t, {})
                 [] d.state = "returned" ->
                      Awaiting("radius", d.value, d.providersUsed, d.store, d.own)
                 [] d.state = "await" ->
                      Awaiting("geoname", Undefined, d.providersUsed, d.store, {})

\* the nested resolveDestination got its answer; the radius query follows
nearbyAttractionsProvider_geoname(params, providersUsed, s, t, response) ==
    LET d == resolveDestination_reply(params.destination, providersUsed, s, t, response)
    IN Awaiting("radius", d.value, d.providersUsed, d.store, d.own)

mapUrl(name) ==
    CASE name = "Wat Lok Moli" ->
           "https://www.google.com/maps/search/?api=1&query=Wat%20Lok%20Moli%2018.7962%2C98.9825"
      [] name = "Khao Soi Khun Yai" ->
           "https://www.google.com/maps/search/?api=1&query=Khao%20Soi%20Khun%20Yai%2018.7955%2C98.983"
      [] OTHER -> "https://www.google.com/maps/search/?api=1&query="

nearbyAttractionsProvider_radius(params, nested, providersUsed, s, t, response) ==
    IF response.kind = "error" \/ (response.kind = "ok" /\ response.body = BadJson)
    THEN placesMock(NOTE_PLACES_ERRORED, params, providersUsed, s, t, nested)
    ELSE IF response.kind = "status"
    THEN placesMock(NOTE_PLACES_FAILED, params, providersUsed, s, t, nested)
    ELSE LET features == Prop(response.body, "features", << >>)
             named == SelectSeq(features, LAMBDA feature : feature.name # "")
             options == Slice([i \in 1..Len(named) |->
                                  Place(named[i].xid, named[i].name,
                                        mapKindsToCategory(named[i].kinds),
                                        named[i].lat, named[i].lon, mapUrl(named[i].name),
                                        mapKindsToDuration(named[i].kinds))],
                              limitOf(params))
         IN IF Len(options) = 0
            THEN placesMock(NOTE_PLACES_EMPTY, params, providersUsed, s, t, nested)
            ELSE TagSetReturn([options |-> options], <<"opentripmap">>, "live",
                              placesKey(params), providersUsed, s, t, nested)


(***************************************************************************)
(* The tool handlers of TripToolset (mcp.ts).  A request is suspended at   *)
(* pc: at the call of a provider ("dest", "weather", "flights", "stays",   *)
(* "places"), at the external request a provider is waiting for            *)
(* ("geoname", "forecast", "token", "offers", "places_geoname", "radius"), *)
(* or before the synchronous tail of the handler ("finish").               *)
(***************************************************************************)
MaxRequests == 2

UndefTags == << UndefS >>

FlightSearchParams(origin, destination, departDate, adults) ==
    [origin |-> origin, destination |-> destination, departDate |-> departDate,
     returnDate |-> UndefS, adults |-> adults, cabin |-> UndefS]
StaySearchParams(destination, checkIn, nights) ==
    [destination |-> destination, checkIn |-> checkIn, nights |-> nights, guests |-> UndefN]
AttractionSearchParams(destination, interests, limit) ==
    [destination |-> destination, tags |-> interests, limit |-> limit]
WeatherQueryParams(lat, lon, startDate, days) ==
    [lat |-> lat, lon |-> lon, startDate |-> startDate, days |-> days]

PlanTripInput(origin, days, budgetUSD, interests) ==
    [tool |-> "planTrip", origin |-> origin, destination |-> "Chiang Mai",
     startDate |-> <<2025, 11, 29>>, days |-> days, budgetUSD |-> budgetUSD,
     interests |-> interests]

ToolInput(tool, params) == [tool |-> tool, params |-> params]

\* the inputs the model submits that pass validation
Inputs ==
    { PlanTripInput(UndefS, UndefN, UndefN, UndefTags),
      [PlanTripInput(UndefS, 4, UndefN, UndefTags) EXCEPT !.startDate = <<2025, 11, 20>>],
      PlanTripInput("bkk", 2, 900, <<"Temple">>),
      ToolInput("searchFlights", FlightSearchParams("bkk", "Chiang Mai", <<2025, 11, 29>>, 1)),
      ToolInput("searchStays", StaySearchParams("Chiang Mai", <<2025, 11, 29>>, 4)),
      ToolInput("nearbyAttractions", AttractionSearchParams("Chiang Mai", UndefTags, 12)),
      ToolInput("nearbyAttractions", AttractionSearchParams("Chiang Mai", UndefTags, 2)),
      ToolInput("weather", WeatherQueryParams(18788300, 98985300, <<2025, 11, 29>>, 4)) }

\* inputs that a validator refuses: one per tool, and two more for planTrip
InvalidInputs ==
    { [PlanTripInput(UndefS, 4, UndefN, UndefTags) EXCEPT !.destination = UndefS],
      PlanTripInput("bkk", 0, UndefN, UndefTags),
      [PlanTripInput(UndefS, 4, UndefN, UndefTags) EXCEPT !.startDate = <<2025, 13, 1>>],
      ToolInput("searchFlights", FlightSearchParams(UndefS, "Chiang Mai", <<2025, 11, 29>>, 1)),
      ToolInput("searchStays", StaySearchParams("Chiang Mai", <<2025, 11, 29>>, 0)),
      ToolInput("nearbyAttractions", AttractionSearchParams("Chiang Mai", UndefTags, 0)),
      ToolInput("weather", WeatherQueryParams(91000000, 98985300, <<2025, 11, 29>>, 4)) }

\* validateISODate on a date of the model (always of the form YYYY-MM-DD): Date.parse
\* is NaN for a month outside 01..12 or a day outside 01..31
validateISODate_throws(date) == date[2] \notin 1..12 \/ date[3] \notin 1..31

Accepted(value) == [ok |-> TRUE, value |-> value]
Rejected(message) == [ok |-> FALSE, message |-> message]

\* tags.filter(string).map(trim, toLowerCase).filter(nonempty), undefined when none is left
cleanTags(list) ==
    IF list = UndefTags THEN UndefTags
    ELSE LET kept == SelectSeq([i \in 1..Len(list) |-> toLowerCase(list[i])],
                               LAMBDA item : item # "")
         IN IF Len(kept) > 0 THEN kept ELSE UndefTags

\* a validator that lets any day count through
validatePlanTripInput_anydays(raw) ==
    IF raw.destination = UndefS THEN Rejected("destination is required.")
    ELSE IF raw.startDate = << >> THEN Rejected("startDate is required.")
    ELSE IF validateISODate_throws(raw.startDate)
    THEN Rejected("startDate must be a valid date.")
    ELSE Accepted([raw EXCEPT !.days = IF raw.days = UndefN THEN 4 ELSE raw.days,
                              !.interests = cleanTags(raw.interests)])

validatePlanTripInput(raw) ==
    IF raw.destination = UndefS THEN Rejected("destination is required.")
    ELSE IF raw.startDate = << >> THEN Rejected("startDate is required.")
    ELSE IF validateISODate_throws(raw.startDate)
    THEN Rejected("startDate must be a valid date.")
    ELSE IF raw.days # UndefN /\ raw.days < 1
    THEN Rejected("days must be a positive integer.")
    ELSE IF raw.budgetUSD # UndefN /\ raw.budgetUSD < 0
    THEN Rejected("budgetUSD must be a positive number.")
    ELSE Accepted([raw EXCEPT !.days = IF raw.days = UndefN THEN 4 ELSE raw.days,
                              !.interests = cleanTags(raw.interests)])

validateFlightSearchInput(params) ==
    IF params.origin = UndefS \/ params.destination = UndefS
    THEN Rejected("origin and destination are required.")
    ELSE IF params.departDate = << >> THEN Rejected("departDate is required.")
    ELSE IF validateISODate_throws(params.departDate)
    THEN Rejected("departDate must be a valid date.")
    ELSE IF params.adults # UndefN /\ params.adults < 1
    THEN Rejected("adults must be a positive integer.")
    ELSE Accepted(params)

validateStaySearchInput(params) ==
    IF params.destination = UndefS THEN Rejected("destination is required.")
    ELSE IF params.checkIn = << >> THEN Rejected("checkIn is required.")
    ELSE IF validateISODate_throws(params.checkIn)
    THEN Rejected("checkIn must be a valid date.")
    ELSE IF params.nights = UndefN \/ params.nights < 1   \* Number(undefined) is NaN
    THEN Rejected("nights must be a positive integer.")
    ELSE Accepted(params)

validateNearbyAttractionsInput(params) ==
    IF params.destination = UndefS THEN Rejected("destination is required.")
    ELSE IF params.limit # UndefN /\ params.limit < 1
    THEN Rejected("limit must be a positive integer.")
    ELSE Accepted([params EXCEPT !.tags = cleanTags(params.tags)])

validateWeatherInput(params) ==
    IF params.lat = UndefN \/ params.lat < 0 - 90000000 \/ params.lat > 90000000
    THEN Rejected("lat must be between -90 and 90.")
    ELSE IF params.lon = UndefN \/ params.lon < 0 - 180000000 \/ params.lon > 180000000
    THEN Rejected("lon must be between -180 and 180.")
    ELSE IF params.startDate = << >> THEN Rejected("startDate is required.")
    ELSE IF validateISODate_throws(params.startDate)
    THEN Rejected("startDate must be a valid date.")
    ELSE IF params.days = UndefN \/ params.days < 1
    THEN Rejected("days must be a positive integer.")
    ELSE Accepted(params)

\* definition.validate(rawInput); the messages are those of the code without the
\* backquotes around the field names
validate(raw) ==
    LET lift(v) == IF v.ok THEN Accepted(ToolInput(raw.tool, v.value)) ELSE v
    IN CASE raw.tool = "planTrip" -> validatePlanTripInput(raw)
         [] raw.tool = "searchFlights" -> lift(validateFlightSearchInput(raw.params))
         [] raw.tool = "searchStays" -> lift(validateStaySearchInput(raw.params))
         [] raw.tool = "nearbyAttractions" -> lift(validateNearbyAttractionsInput(raw.params))
         [] raw.tool = "weather" -> lift(validateWeatherInput(raw.params))

\* resolveProviderConfigFromEnv: which credentials the environment holds
Configs ==
    { NoConfig,
      [openTripMap |-> TRUE, amadeus |-> FALSE, booking |-> FALSE],
      [openTripMap |-> FALSE, amadeus |-> TRUE, booking |-> FALSE],
      [openTripMap |-> TRUE, amadeus |-> TRUE, booking |-> TRUE] }

\* the handler's locals that hold what the providers returned; pending is the
\* destination a suspended nearbyAttractionsProvider holds
NoLocals ==
    [destination |-> Undefined, weather |-> Undefined, flights |-> Undefined,
     staysResult |-> Undefined, placesResult |-> Undefined, pending |-> Undefined]

LocalOf(prov) ==
    CASE prov = "dest" -> "destination"
      [] prov = "weather" -> "weather"
      [] prov = "flights" -> "flights"
      [] prov = "stays" -> "staysResult"
      [] prov = "places" -> "placesResult"

\* const days = input.days ?? 4
daysOf(in) == IF in.days = UndefN THEN 4 ELSE in.days
\* Math.max(12, days * 3)
placesLimit(days) == IF days * 3 > 12 THEN days * 3 ELSE 12

\* the argument the handler of request r passes to a provider
ParamsOf(r, prov) ==
    IF input[r].tool # "planTrip" THEN input[r].params
    ELSE LET in == input[r]
             destination == loc[r].destination
         IN CASE prov = "dest" -> in.destination
              [] prov = "weather" ->
                   WeatherQueryParams(destination.lat, destination.lon, in.startDate, daysOf(in))
              [] prov = "flights" ->
                   FlightSearchParams(in.origin, destination.name, in.startDate, 1)
              [] prov = "stays" ->
                   StaySearchParams(destination.name, in.startDate, daysOf(in))
              [] prov = "places" ->
                   AttractionSearchParams(destination.name, in.interests,
                                          placesLimit(daysOf(in)))

FirstPc(in) ==
    CASE in.tool = "planTrip" -> "dest"
      [] in.tool = "searchFlights" -> "flights"
      [] in.tool = "searchStays" -> "stays"
      [] in.tool = "nearbyAttractions" -> "places"
      [] in.tool = "weather" -> "weather"

\* where the handler goes on once the provider has returned
AfterPc(in, prov) ==
    IF in.tool # "planTrip" THEN "finish"
    ELSE CASE prov = "dest" -> "weather"
           [] prov = "weather" -> IF in.origin # UndefS THEN "flights" ELSE "stays"
           [] prov = "flights" -> "stays"
           [] prov = "stays" -> "places"
           [] prov = "places" -> "finish"

AwaitPc(prov, endpoint) ==
    IF prov = "places" /\ endpoint = "geoname" THEN "places_geoname" ELSE endpoint

NewCall(prov, key) ==
    [prov |-> prov, key |-> key,
     cachedBefore |-> IF key = << >> THEN Undefined ELSE get_value(store, key, now),
     state |-> "running", tier |-> "none", own |-> {}, nested |-> {}, ext |-> << >>,
     ret |-> Undefined, at |-> now, failed |-> FALSE, tiers |-> {}, nestedAll |-> {}]

\* executeTool: a rejection of the handler becomes an error answer
ErrorResponse == [status |-> "error"]

\* one stretch of provider prov ran in request r and left o
Settle(r, prov, base, o) ==
    /\ ctx' = [ctx EXCEPT ![r] = o.providersUsed]
    /\ store' = o.store
    /\ call' = [call EXCEPT ![r] =
                  [base EXCEPT !.state = o.state,
                               !.tier = o.tier,
                               !.own = base.own \cup o.own,
                               !.nested = base.nested \cup o.nested,
                               !.ext = IF o.state = "await"
                                       THEN Append(base.ext, o.endpoint) ELSE base.ext,
                               !.ret = IF o.state = "returned" THEN o.value ELSE Undefined,
                               !.at = now,
                               !.tiers = call[r].tiers \cup
                                         (IF o.state = "returned"
                                          THEN {<<prov, o.tier>>} ELSE {}),
                               !.nestedAll = call[r].nestedAll \cup o.nested]]
    /\ lastSet' = LET written == {k \in DOMAIN o.store :
                                    k \notin DOMAIN store \/ o.store[k] # store[k]}
                  IN [k \in DOMAIN lastSet \cup written |->
                        IF k \in written
                        THEN [value |-> o.store[k].value, at |-> now,
                              ttl |-> o.store[k].expiresAt - now,
                              tier |-> IF k = base.key THEN o.tier ELSE "nested",
                              provenance |-> o.providersUsed]
                        ELSE lastSet[k]]
    /\ CASE o.state = "returned" ->
              /\ loc' = [loc EXCEPT ![r] = [loc[r] EXCEPT ![LocalOf(prov)] = o.value,
                                                          !.pending = Undefined]]
              /\ pc' = [pc EXCEPT ![r] = AfterPc(input[r], prov)]
              /\ UNCHANGED resp
         [] o.state = "await" ->
              /\ loc' = [loc EXCEPT ![r] = [loc[r] EXCEPT !.pending = o.value]]
              /\ pc' = [pc EXCEPT ![r] = AwaitPc(prov, o.endpoint)]
              /\ UNCHANGED resp
         [] o.state = "threw" ->
              /\ loc' = [loc EXCEPT ![r] = [loc[r] EXCEPT !.pending = Undefined]]
              /\ pc' = [pc EXCEPT ![r] = "done"]
              /\ resp' = [resp EXCEPT ![r] = ErrorResponse]
    /\ UNCHANGED <<applied, now, lastOp, metaVars, cfg, input, served>>

\* history: the invocation in progress after an external request was answered
Answered(r, response) == [call[r] EXCEPT !.failed = Failed(response)]

InFlight == {r \in Reqs : pc[r] # "idle"}

\* a tool call arrives (executeTool): the input is validated; a refused input is
\* answered at once with the validator's message; otherwise the handler starts with
\* createProviderContext and calls its first provider
Start(r, raw) ==
    /\ pc[r] = "idle"
    /\ served + Cardinality(InFlight) < MaxRequests
    /\ ctx' = [ctx EXCEPT ![r] = << >>]
    /\ call' = [call EXCEPT ![r] = NoCall]
    /\ IF validate(raw).ok
       THEN /\ input' = [input EXCEPT ![r] = validate(raw).value]
            /\ loc' = [loc EXCEPT ![r] = NoLocals]
            /\ resp' = [resp EXCEPT ![r] = Undefined]
            /\ pc' = [pc EXCEPT ![r] = FirstPc(raw)]
       ELSE /\ input' = [input EXCEPT ![r] = raw]
            /\ loc' = [loc EXCEPT ![r] = Undefined]
            /\ resp' = [resp EXCEPT ![r] = [status |-> "error",
                                            error |-> validate(raw).message]]
            /\ pc' = [pc EXCEPT ![r] = "done"]
    /\ UNCHANGED <<applied, cacheVars, metaVars, cfg, served>>

CallDest(r) ==
    /\ pc[r] = "dest"
    /\ LET city == ParamsOf(r, "dest")
       IN Settle(r, "dest", NewCall("dest", destKey(city)),
                 resolveDestination_start(city, ctx[r], store, now, cfg))

ReplyGeoname(r, response) ==
    /\ pc[r] = "geoname"
    /\ Settle(r, "dest", Answered(r, response),
              resolveDestination_reply(ParamsOf(r, "dest"), ctx[r], store, now, response))

CallWeather(r) ==
    /\ pc[r] = "weather"
    /\ LET params == ParamsOf(r, "weather")
       IN Settle(r, "weather", NewCall("weather", weatherKey(params)),
                 weatherProvider_start(params, ctx[r], store, now))

ReplyForecast(r) ==
    /\ pc[r] = "forecast"
    /\ \E response \in WeatherResponses(ParamsOf(r, "weather")) :
          Settle(r, "weather", Answered(r, response),
                 weatherProvider_reply(ParamsOf(r, "weather"), ctx[r], store, now, response))

CallFlights(r) ==
    /\ pc[r] = "flights"
    /\ LET params == ParamsOf(r, "flights")
       IN Settle(r, "flights", NewCall("flights", flightsKey(params)),
                 searchFlightsProvider_start(params, ctx[r], store, now, cfg))

ReplyToken(r, response) ==
    /\ pc[r] = "token"
    /\ Settle(r, "flights", Answered(r, response),
              searchFlightsProvider_token(ParamsOf(r, "flights"), ctx[r], store, now, response))

ReplyOffers(r, response) ==
    /\ pc[r] = "offers"
    /\ Settle(r, "flights", Answered(r, response),
              searchFlightsProvider_offers(ParamsOf(r, "flights"), ctx[r], store, now, response))

CallStays(r) ==
    /\ pc[r] = "stays"
    /\ LET params == ParamsOf(r, "stays")
       IN Settle(r, "stays", NewCall("stays", staysKey(params)),
                 searchStaysProvider_call(params, ctx[r], store, now, cfg))

CallPlaces(r) ==
    /\ pc[r] = "places"
    /\ LET params == ParamsOf(r, "places")
       IN Settle(r, "places", NewCall("places", placesKey(params)),
                 nearbyAttractionsProvider_start(params, ctx[r], store, now, cfg))

ReplyPlacesGeoname(r, response) ==
    /\ pc[r] = "places_geoname"
    /\ Settle(r, "places", Answered(r, response),
              nearbyAttractionsProvider_geoname(ParamsOf(r, "places"), ctx[r], store, now,
                                                response))

ReplyRadius(r, response) ==
    /\ pc[r] = "radius"
    /\ Settle(r, "places", Answered(r, response),
              nearbyAttractionsProvider_radius(ParamsOf(r, "places"), call[r].nested,
                                               ctx[r], store, now, response))


\* store.set(type, stay) for each stay, then get(type): the last stay of the type
RECURSIVE FindFirst(_, _, _)
FindFirst(options, type, i) ==
    IF i > Len(options) THEN 0
    ELSE IF options[i].type = type THEN i ELSE FindFirst(options, type, i + 1)

\* a selection that keeps every option
selectStayTiers_all(options) == options

selectStayTiers(options) ==
    LET pick(type) == IF FindFirst(options, type, 1) # 0 THEN FindFirst(options, type, 1)
                      ELSE IF Len(options) > 0 THEN 1 ELSE 0
        desiredTypes == <<"budget", "mid", "premium">>
        found == SelectSeq([i \in 1..3 |-> pick(desiredTypes[i])], LAMBDA i : i # 0)
    IN [i \in 1..Len(found) |-> options[found[i]]]

\* text.includes(interest), on the lower-case strings of the model
includes(text, interest) ==
    CASE interest = "" -> TRUE
      [] interest = "temple" -> text \in {"temple", "doi suthep temple"}
      [] interest = "market" -> text \in {"market", "warorot market"}
      [] interest = "wat" -> text = "wat chedi luang"
      [] OTHER -> text = interest

\* a score that weighs a match in the name like a match in the category
computeInterestScore_flat(place, interests) ==
    2 + 4 * Cardinality({i \in interests : includes(toLowerCase(place.category), i)})
      + 4 * Cardinality({i \in interests : includes(toLowerCase(place.name), i)})

\* twice the score of the code (which adds 2 and 1.5): interests.forEach adds to the
\* score once per keyword of the Set
computeInterestScore(place, interests) ==
    LET RECURSIVE forEach(_, _)
        forEach(rest, score) ==
            IF rest = {} THEN score
            ELSE LET interest == CHOOSE i \in rest : TRUE
                 IN forEach(rest \ {interest},
                            score
                            + (IF includes(toLowerCase(place.category), interest) THEN 4 ELSE 0)
                            + (IF includes(toLowerCase(place.name), interest) THEN 3 ELSE 0))
    IN IF Cardinality(interests) = 0 THEN 2 ELSE forEach(interests, 2)

\* places.sort((a, b) => b.score - a.score): stable, highest score first
RECURSIVE sortByScore(_, _, _)
sortByScore(places, interests, score) ==
    IF score < 0 THEN << >>
    ELSE SelectSeq(places, LAMBDA p : computeInterestScore(p, interests) = score)
         \o sortByScore(places, interests, score - 1)

DefaultSlot(text) == [text |-> text]
PlaceSlot(text, place, twist) ==
    [text |-> text, name |-> place.name, category |-> place.category,
     estMinutes |-> place.estMinutes, twist |-> twist]

\* new Set((interests ?? []).map((item) => item.toLowerCase()))
interestSetOf(interests) ==
    IF interests = UndefTags THEN {}
    ELSE {toLowerCase(interests[i]) : i \in 1..Len(interests)}

\* a sort by descending score that reverses the candidates of equal score
scoredPlaces_unstable(places, interests) ==
    LET sorted == sortByScore(places, interestSetOf(interests),
                              2 + 7 * Cardinality(interestSetOf(interests)))
        ties(k) == {j \in 1..Len(sorted) :
                      computeInterestScore(sorted[j], interestSetOf(interests))
                          = computeInterestScore(sorted[k], interestSetOf(interests))}
        first(k) == CHOOSE j \in ties(k) : \A i \in ties(k) : j <= i
        last(k) == CHOOSE j \in ties(k) : \A i \in ties(k) : j >= i
    IN [k \in 1..Len(sorted) |-> sorted[first(k) + last(k) - k]]

\* places.map(score).sort((a, b) => b.score - a.score).map(place)
scoredPlaces(places, interests) ==
    sortByScore(places, interestSetOf(interests),
                2 + 7 * Cardinality(interestSetOf(interests)))

\* an implementation that sorts the array it was given
groupPlacesForItinerary_sortsInPlace(startDate, days, places, interests) ==
    scoredPlaces(places, interests)

\* the array `places` after the call: map() and [...scoredPlaces] build new arrays,
\* sort() and shift() act on those, no statement assigns to places or its elements
groupPlacesForItinerary_places(startDate, days, places, interests) == places

\* an implementation that reads the head of the queue for the evening without
\* removing the afternoon's candidate
groupPlacesForItinerary_peeks(startDate, days, places, interests) ==
    LET queue == scoredPlaces(places, interests)
        has(i) == i <= Len(queue)
    IN [d \in 1..days |->
          LET m == 2 * (d - 1) + 1
              a == m + 1
          IN [day |-> d,
              date |-> addDays(startDate, d - 1),
              morning |-> IF has(m) THEN PlaceSlot("Start at", queue[m], FALSE)
                          ELSE DefaultSlot("Leisurely breakfast and walking tour of the Old City"),
              afternoon |-> IF has(a) THEN PlaceSlot("Afternoon at", queue[a], FALSE)
                            ELSE DefaultSlot("Street food crawl & coffee tasting"),
              evening |-> IF has(a)
                          THEN PlaceSlot("Evening at", queue[a],
                                         queue[m].category = queue[a].category)
                          ELSE DefaultSlot("Night market stroll & live music"),
              mapUrl |-> IF has(m) THEN queue[m].url ELSE UndefS]]

groupPlacesForItinerary(startDate, days, places, interests) ==
    LET queue == scoredPlaces(places, interests)
        has(i) == i <= Len(queue)
    IN [d \in 1..days |->
          LET m == 3 * (d - 1) + 1
              a == m + 1
              e == m + 2
          IN [day |-> d,
              date |-> addDays(startDate, d - 1),
              morning |-> IF has(m) THEN PlaceSlot("Start at", queue[m], FALSE)
                          ELSE DefaultSlot("Leisurely breakfast and walking tour of the Old City"),
              afternoon |-> IF has(a) THEN PlaceSlot("Afternoon at", queue[a], FALSE)
                            ELSE DefaultSlot("Street food crawl & coffee tasting"),
              evening |-> IF has(e)
                          THEN PlaceSlot("Evening at", queue[e],
                                         queue[m].category = queue[e].category)
                          ELSE DefaultSlot("Night market stroll & live music"),
              mapUrl |-> IF has(m) THEN queue[m].url ELSE UndefS]]

\* an implementation that leaves the prices in the order of the options
sortAscending_asGiven(prices) == prices

\* prices.sort((a, b) => a - b)
RECURSIVE sortAscending(_)
sortAscending(prices) ==
    IF Len(prices) = 0 THEN << >>
    ELSE LET least == CHOOSE i \in 1..Len(prices) :
                         \A j \in 1..Len(prices) : prices[i] <= prices[j]
         IN <<prices[least]>> \o
            sortAscending([k \in 1..(Len(prices) - 1) |->
                              IF k < least THEN prices[k] ELSE prices[k + 1]])

Min(a, b) == IF a < b THEN a ELSE b

\* an implementation in which a missing tier contributes nothing
stayTotal_zero(stays, type, fallback) ==
    LET ofType == SelectSeq(stays, LAMBDA stay : stay.type = type)
    IN IF Len(ofType) = 0 THEN 0 ELSE ofType[Len(ofType)].totalUSD

\* stayLookup.get(type)?.totalUSD ?? fallback: set overwrites, the last stay of a type stays
stayTotal(stays, type, fallback) ==
    LET ofType == SelectSeq(stays, LAMBDA stay : stay.type = type)
    IN IF Len(ofType) = 0 THEN fallback ELSE ofType[Len(ofType)].totalUSD

CostNote(text) == [text |-> text]
BudgetNote(text, budget) == [text |-> text, budget |-> budget]

computeCostEstimate(days, stays, flights, budget, originProvided, notes) ==
    LET options == IF "options" \in DOMAIN flights THEN flights.options ELSE << >>
        flightPrices ==
            sortAscending(SelectSeq([i \in 1..Len(options) |-> options[i].priceUSD],
                                    LAMBDA price : price # NaN /\ price # UndefN /\ price > 0))
        n == Len(flightPrices)
        flightLow == IF n > 0 THEN flightPrices[1] ELSE 0
        flightMid == IF n > 0 THEN flightPrices[Min(1, n - 1) + 1] ELSE flightLow
        flightHigh == IF n > 0 THEN flightPrices[Min(2, n - 1) + 1] ELSE flightMid
        stayBudget == stayTotal(stays, "budget", 0)
        stayMid == stayTotal(stays, "mid", stayBudget)
        stayPremium == stayTotal(stays, "premium", stayMid)
        lowUSD == flightLow + stayBudget + 45 * days
        midUSD == flightMid + stayMid + 75 * days
        highUSD == flightHigh + stayPremium + 130 * days
        budgetNotes == IF budget = UndefN \/ budget = 0 THEN << >>
                       ELSE << BudgetNote("Target budget", budget),
                               CostNote(IF midUSD <= budget
                                        THEN "Mid-range estimate is within budget."
                                        ELSE "Mid-range estimate is above budget.") >>
    IN [lowUSD |-> lowUSD, midUSD |-> midUSD, highUSD |-> highUSD,
        notes |-> << CostNote("Daily activity budgets: $45/75/130 (low/mid/high).") >>
                  \o budgetNotes \o notes]

\* if (result.note) notes.<capability> = result.note
noteOf(result) ==
    IF "note" \in DOMAIN result /\ result.note # "" THEN << CostNote(result.note) >> ELSE << >>

\* renderPlanTripHtml: escapeHtml(undefined) throws in the header
renderPlanTripHtml_throws(plan) ==
    plan.destination.name = UndefS \/ plan.destination.country = UndefS

\* the synchronous tail of a handler: the result it returns
planTrip_result(r) ==
    LET in == input[r]
        days == daysOf(in)
        flights == IF in.origin # UndefS THEN loc[r].flights
                   ELSE [note |-> "No origin provided.", options |-> << >>]
        stayOptions == selectStayTiers(loc[r].staysResult.options)
        notes == (IF in.origin # UndefS THEN noteOf(flights) ELSE << >>)
                 \o noteOf(loc[r].staysResult) \o noteOf(loc[r].placesResult)
    IN [destination |-> loc[r].destination,
        dates |-> [start |-> in.startDate, end |-> addDays(in.startDate, days - 1),
                   days |-> days],
        weather |-> loc[r].weather,
        flights |-> flights,
        stays |-> stayOptions,
        places |-> loc[r].placesResult.options,
        itinerary |-> groupPlacesForItinerary(in.startDate, days,
                                              loc[r].placesResult.options, in.interests),
        costEstimate |-> computeCostEstimate(days, stayOptions, flights, in.budgetUSD,
                                             in.origin # UndefS, notes),
        meta |-> providersFromContext(ctx[r], now)]

\* a result whose metadata is computed from the tags of every request in flight
tool_result_shared(r) ==
    [value |-> loc[r][LocalOf(FirstPc(input[r]))],
     meta |-> providersFromContext(ctx[1] \o ctx[2], now)]

tool_result(r) ==
    LET prov == FirstPc(input[r])
    IN [value |-> loc[r][LocalOf(prov)], meta |-> providersFromContext(ctx[r], now)]

Finish(r) ==
    /\ pc[r] = "finish"
    /\ pc' = [pc EXCEPT ![r] = "done"]
    /\ resp' = [resp EXCEPT ![r] =
                  IF input[r].tool = "planTrip"
                  THEN IF renderPlanTripHtml_throws(planTrip_result(r))
                       THEN ErrorResponse
                       ELSE [status |-> "ok", result |-> planTrip_result(r)]
                  ELSE [status |-> "ok", result |-> tool_result(r)]]
    /\ UNCHANGED <<applied, cacheVars, metaVars, cfg, input, ctx, loc, call, served>>

\* the answer is sent; the handler's locals are gone
Respond(r) ==
    /\ pc[r] = "done"
    /\ pc' = [pc EXCEPT ![r] = "idle"]
    /\ served' = served + 1
    /\ input' = [input EXCEPT ![r] = Undefined]
    /\ ctx' = [ctx EXCEPT ![r] = << >>]
    /\ loc' = [loc EXCEPT ![r] = Undefined]
    /\ call' = [call EXCEPT ![r] = NoCall]
    /\ resp' = [resp EXCEPT ![r] = Undefined]
    /\ UNCHANGED <<applied, cacheVars, metaVars, cfg>>

Init ==
    /\ now = 0
    /\ store = EmptyStore
    /\ lastSet = EmptyStore
    /\ lastOp = NoOp
    /\ tags = << >>
    /\ meta = NoMeta
    /\ cfg \in Configs
    /\ ReqIdle
    /\ applied = NoApplication

Step(r) ==
    \/ CallDest(r)
    \/ \E response \in GeonameResponses : ReplyGeoname(r, response)
    \/ CallWeather(r)
    \/ ReplyForecast(r)
    \/ CallFlights(r)
    \/ \E response \in TokenResponses : ReplyToken(r, response)
    \/ \E response \in OffersResponses : ReplyOffers(r, response)
    \/ CallStays(r)
    \/ CallPlaces(r)
    \/ \E response \in GeonameResponses : ReplyPlacesGeoname(r, response)
    \/ \E response \in RadiusResponses : ReplyRadius(r, response)
    \/ Finish(r)
    \/ Respond(r)

\* one tool call at a time; between two calls the clock may advance by a little
\* less than the default TTL, by the default TTL, or by more
Arrive(in) == InFlight = {} /\ Start(1, in)
Elapse(d) == InFlight = {} /\ Tick(d)

Next ==
    \/ \E in \in Inputs \cup InvalidInputs : Arrive(in)
    \/ Step(1)
    \/ \E d \in {DefaultTtl - 1, DefaultTtl, DefaultTtl + 1} : Elapse(d)

Spec == Init /\ [][Next]_vars

(***************************************************************************)
(* The synchronous helpers of mcp.ts applied to bounded arguments: the     *)
(* itinerary synthesis, the interest score and the cost estimate are       *)
(* module-level functions without state; a behaviour applies one of them   *)
(* once and records the arguments and what came back.                      *)
(***************************************************************************)
MaxPlaces == 4
MaxDays == 2
MaxPrices == 3

\* candidates: two temples, a market and a food stop of the curated list
HPlaces == {MOCK_PLACES[i] : i \in {2, 5, 7, 8}}
CandidateLists == UNION {[1..n -> HPlaces] : n \in 0..MaxPlaces}
InterestLists == {UndefTags, << >>, <<"temple">>, <<"Temple", "market">>, <<"wat">>}
InterestSets == SUBSET {"temple", "market", "wat", "food"}
\* a month end, a leap day ahead, a year end
StartDates == {<<2025, 11, 29>>, <<2024, 2, 28>>, <<2025, 12, 31>>}

\* flights: absent, or options whose priceUSD is any number, NaN included
FlightResults ==
    {Undefined} \cup
    {[options |-> [i \in 1..Len(prices) |-> [priceUSD |-> prices[i]]]] :
        prices \in UNION {[1..n -> {NaN, 0, 90, 250}] : n \in 0..MaxPrices}}

\* stays by tier, in the order selectStayTiers pushes them (budget, mid, premium):
\* each tier absent or present once, with a total of its own
StayLists ==
    LET Tier(type) == {<< >>} \cup {<<[type |-> type, totalUSD |-> total]>> : total \in {0, 300}}
    IN {b \o m \o p : b \in Tier("budget"), m \in Tier("mid"), p \in Tier("premium")}

PureInit ==
    /\ now = 0
    /\ store = EmptyStore
    /\ lastSet = EmptyStore
    /\ lastOp = NoOp
    /\ tags = << >>
    /\ meta = NoMeta
    /\ cfg = NoConfig
    /\ ReqIdle
    /\ applied = NoApplication

GroupPlaces(startDate, days, places, interests) ==
    /\ applied = NoApplication
    /\ applied' =
         LET left == groupPlacesForItinerary_places(startDate, days, places, interests)
         IN [fn |-> "groupPlacesForItinerary",
             startDate |-> startDate, days |-> days, places |-> places,
             interests |-> interests,
             result |-> groupPlacesForItinerary(startDate, days, places, interests),
             placesAfter |-> left,
             again |-> groupPlacesForItinerary(startDate, days, left, interests)]
    /\ UNCHANGED <<cacheVars, metaVars, reqVars>>

InterestScore(place, interests) ==
    /\ applied = NoApplication
    /\ applied' = [fn |-> "computeInterestScore", place |-> place, interests |-> interests,
                   result |-> computeInterestScore(place, interests)]
    /\ UNCHANGED <<cacheVars, metaVars, reqVars>>

CostEstimate(days, stays, flights, budget) ==
    /\ applied = NoApplication
    /\ applied' = [fn |-> "computeCostEstimate", days |-> days, stays |-> stays,
                   flights |-> flights, budget |-> budget,
                   result |-> computeCostEstimate(days, stays, flights, budget,
                                                  flights # Undefined, << >>)]
    /\ UNCHANGED <<cacheVars, metaVars, reqVars>>

(***************************************************************************)
(* planTrip as a function of its input, the configuration, the cache it    *)
(* starts from and the answers of the upstream endpoints: the run of the   *)
(* handler when no other request touches the cache meanwhile.  u holds the *)
(* answer each endpoint gives if it is asked.                              *)
(***************************************************************************)
RunFailed == [status |-> "error"]

PlanRun(in, config, s0, t, u) ==
    LET days == daysOf(in)
        \* const destination = await resolveDestination(...)
        Dest ==
            LET d0 == resolveDestination_start(in.destination, << >>, s0, t, config)
            IN IF d0.state = "await"
               THEN resolveDestination_reply(in.destination, d0.providersUsed, d0.store, t,
                                             u.geoname)
               ELSE d0
        \* const weather = await weatherProvider(...)
        Weather(d) ==
            LET wp == WeatherQueryParams(d.value.lat, d.value.lon, in.startDate, days)
                w0 == weatherProvider_start(wp, d.providersUsed, d.store, t)
            IN IF w0.state = "await"
               THEN weatherProvider_reply(wp, w0.providersUsed, w0.store, t, u.forecast)
               ELSE w0
        \* const flights = input.origin ? await searchFlightsProvider(...) : {note, options: []}
        Flights(d, w) ==
            LET fp == FlightSearchParams(in.origin, d.value.name, in.startDate, 1)
                f0 == searchFlightsProvider_start(fp, w.providersUsed, w.store, t, config)
                f1 == IF f0.state = "await"
                      THEN searchFlightsProvider_token(fp, f0.providersUsed, f0.store, t,
                                                       u.token)
                      ELSE f0
            IN IF in.origin = UndefS
               THEN [w EXCEPT !.value = [note |-> "No origin provided.", options |-> << >>]]
               ELSE IF f1.state = "await"
               THEN searchFlightsProvider_offers(fp, f1.providersUsed, f1.store, t, u.offers)
               ELSE f1
        \* const staysResult = await searchStaysProvider(...)
        Stays(d, f) ==
            searchStaysProvider_call(StaySearchParams(d.value.name, in.startDate, days),
                                     f.providersUsed, f.store, t, config)
        \* const placesResult = await nearbyAttractionsProvider(...)
        Places(d, st) ==
            LET pp == AttractionSearchParams(d.value.name, in.interests, placesLimit(days))
                p0 == nearbyAttractionsProvider_start(pp, st.providersUsed, st.store, t,
                                                      config)
                p1 == IF p0.state = "await" /\ p0.endpoint = "geoname"
                      THEN nearbyAttractionsProvider_geoname(pp, p0.providersUsed, p0.store,
                                                             t, u.placesGeoname)
                      ELSE p0
            IN IF p1.state = "await"
               THEN nearbyAttractionsProvider_radius(pp, p0.nested \cup p1.nested,
                                                     p1.providersUsed, p1.store, t, u.radius)
               ELSE p1
        Result(d, w, f, st, p) ==
            IF d.state = "threw" THEN RunFailed
            ELSE IF w.state = "threw" \/ f.state = "threw" THEN RunFailed
            ELSE IF st.state = "threw" \/ p.state = "threw" THEN RunFailed
            ELSE IF d.value.name = UndefS \/ d.value.country = UndefS
            THEN RunFailed      \* renderPlanTripHtml throws
            ELSE [status |-> "ok", dest |-> d.value, weather |-> w.value,
                  flights |-> f.value, stays |-> selectStayTiers(st.value.options),
                  places |-> p.value.options,
                  meta |-> providersFromContext(p.providersUsed, t)]
        The(S) == CHOOSE x \in S : TRUE
    \* each await is settled, and its value held, before the next provider is called
    IN The({The({The({The({The({Result(d, w, f, st, p)
           : p \in {Places(d, st)}})
           : st \in {Stays(d, f)}})
           : f \in {Flights(d, w)}})
           : w \in {Weather(d)}})
           : d \in {Dest}})

\* the capability an endpoint belongs to
Capabilities == {"dest", "weather", "flights", "stays", "places"}
CapabilityOf(endpoint) ==
    CASE endpoint = "geoname" -> "dest"
      [] endpoint = "forecast" -> "weather"
      [] endpoint \in {"token", "offers"} -> "flights"
      [] endpoint \in {"placesGeoname", "radius"} -> "places"

\* per endpoint a failure and a success; the geoname endpoint may also answer 200
\* without the fields of a place
UpstreamAnswers(in) ==
    [geoname |-> {Response("status", Undefined), Response("ok", GeoFound),
                  Response("ok", GeoNotFound)},
     forecast |-> {Response("status", Undefined),
                   Response("ok", [daily |-> WeatherBody(in.startDate, daysOf(in), TRUE)])},
     token |-> {Response("status", Undefined), Response("ok", [access_token |-> "token"])},
     offers |-> {Response("status", Undefined), Response("ok", [data |-> OffersTwo])},
     placesGeoname |-> {Response("status", Undefined), Response("ok", GeoFound),
                        Response("ok", GeoNotFound)},
     radius |-> {Response("status", Undefined), Response("ok", [features |-> FeaturesNamed])}]

Upstreams(in) ==
    LET answers == UpstreamAnswers(in)
    IN [geoname : answers.geoname, forecast : answers.forecast, token : answers.token,
        offers : answers.offers, placesGeoname : answers.placesGeoname,
        radius : answers.radius]

\* the answers that differ from u1 at most at the endpoints of one capability
Variants(in, u1, capability) ==
    LET answers == UpstreamAnswers(in)
        pick(endpoint) == IF CapabilityOf(endpoint) = capability THEN answers[endpoint]
                          ELSE {u1[endpoint]}
    IN [geoname : pick("geoname"), forecast : pick("forecast"), token : pick("token"),
        offers : pick("offers"), placesGeoname : pick("placesGeoname"),
        radius : pick("radius")]

\* the cache the two runs start from: empty, or holding the destination
StartCaches ==
    {EmptyStore, store_put(EmptyStore, destKey("Chiang Mai"),
                           CacheRecord(MOCK_DESTINATION, DefaultTtl))}

\* two runs of planTrip that differ in the answers of one capability's endpoints
PlanPair(in, config, s0, u1, u2, capability) ==
    /\ applied = NoApplication
    /\ u1 # u2
    /\ \A endpoint \in DOMAIN u1 :
          u1[endpoint] # u2[endpoint] => CapabilityOf(endpoint) = capability
    /\ applied' = [fn |-> "planTrip", input |-> in, config |-> config, cache |-> s0,
                   differs |-> capability, u1 |-> u1, u2 |-> u2,
                   first |-> PlanRun(in, config, s0, 0, u1),
                   second |-> PlanRun(in, config, s0, 0, u2)]
    /\ UNCHANGED <<cacheVars, metaVars, reqVars>>

\* lodging options for selectStayTiers: lists of up to MaxStays of four priced stays
\* (a budget, a mid, a premium and a second mid one)
MaxStays == 3
OptionLists ==
    LET priced == withPricing(SubSeq(MOCK_STAYS, 1, 4), StaySearchParams("Chiang Mai", <<2025, 11, 29>>, 2))
    IN UNION {[1..n -> Range(priced)] : n \in 0..MaxStays}

SelectTiers(options) ==
    /\ applied = NoApplication
    /\ applied' = [fn |-> "selectStayTiers", options |-> options,
                   result |-> selectStayTiers(options)]
    /\ UNCHANGED <<cacheVars, metaVars, reqVars>>

\* source tag strings of two features, each kept as the set of the words the two
\* mappings look for that occur in it, up to MaxKinds words
MaxKinds == 2
KindWords == {"temples", "churches", "religion", "foods", "restaurants", "natural",
              "cultural", "museums", "sport", "amusements", "shopping"}
KindStrings == {kinds \in SUBSET KindWords : Cardinality(kinds) <= MaxKinds}

\* the category and the duration the live tier gives to two features
MapKinds(kinds1, kinds2) ==
    /\ applied = NoApplication
    /\ applied' = [fn |-> "mapKinds", kinds |-> <<kinds1, kinds2>>,
                   category |-> <<mapKindsToCategory(kinds1), mapKindsToCategory(kinds2)>>,
                   estMinutes |-> <<mapKindsToDuration(kinds1), mapKindsToDuration(kinds2)>>]
    /\ UNCHANGED <<cacheVars, metaVars, reqVars>>

\* one application per behaviour
PureNext ==
    /\ applied = NoApplication
    /\ \/ \E startDate \in StartDates, days \in 1..MaxDays, places \in CandidateLists,
             interests \in InterestLists : GroupPlaces(startDate, days, places, interests)
       \/ \E place \in HPlaces, interests \in InterestSets : InterestScore(place, interests)
       \/ \E days \in 1..MaxDays, stays \in StayLists, flights \in FlightResults,
             budget \in {UndefN, 0, 375} : CostEstimate(days, stays, flights, budget)
       \/ \E options \in OptionLists : SelectTiers(options)
       \/ \E kinds1, kinds2 \in KindStrings : MapKinds(kinds1, kinds2)
       \/ \E in \in {validate(raw).value : raw \in {i \in Inputs : i.tool = "planTrip"}},
             config \in Configs, s0 \in StartCaches, capability \in Capabilities :
             \E u1 \in Upstreams(in) :
                \E u2 \in Variants(in, u1, capability) :
                   PlanPair(in, config, s0, u1, u2, capability)

SpecPure == PureInit /\ [][PureNext]_vars



(***************************************************************************)
(* Provenance tags of the providers, by tier                               *)
(***************************************************************************)
CallPcs == {"dest", "weather", "flights", "stays", "places"}

CacheTagOf(prov) ==
    CASE prov \in {"dest", "places"} -> <<"cache", "opentripmap">>
      [] prov = "weather" -> <<"cache", "open-meteo">>
      [] prov = "flights" -> <<"cache", "flights">>
      [] prov = "stays" -> <<"cache", "stays">>

MockTagOf(prov) ==
    CASE prov \in {"dest", "places"} -> <<"opentripmap", "mock">>
      [] prov = "weather" -> <<"weather", "mock">>
      [] prov = "flights" -> <<"flights", "mock">>
      [] prov = "stays" -> <<"stays", "mock">>

LiveTagOf(prov) ==
    CASE prov \in {"dest", "places"} -> <<"opentripmap">>
      [] prov = "weather" -> <<"open-meteo">>
      [] prov = "flights" -> <<"amadeus">>

LiveTags == {<<"opentripmap">>, <<"open-meteo">>, <<"amadeus">>}
MockTags == {<<"opentripmap", "mock">>, <<"weather", "mock">>, <<"flights", "mock">>,
             <<"stays", "mock">>}

\* the live path of a provider cannot be taken under the configuration
NotConfigured(prov) ==
    CASE prov \in {"dest", "places"} -> ~cfg.openTripMap
      [] prov = "flights" -> ~cfg.amadeus
      [] prov = "stays" -> TRUE
      [] prov = "weather" -> FALSE

\* the invocation of request r has returned after a cache miss
ReturnedOnMiss(r) ==
    /\ call[r].prov \in CallPcs
    /\ call[r].state = "returned"
    /\ call[r].cachedBefore = Undefined

MockTierContract(r, added) ==
    /\ (ReturnedOnMiss(r) /\ (NotConfigured(call[r].prov) \/ call[r].failed))
          => call[r].tier = "mock"
    /\ (ReturnedOnMiss(r) /\ call[r].tier = "mock")
          => /\ MockTagOf(call[r].prov) \in call[r].own
             /\ MockTagOf(call[r].prov) \in Range(ctx[r])
             /\ call[r].key \in DOMAIN store
             /\ store[call[r].key].value = call[r].ret
             /\ added \cap LiveTags = {}

HasUnexpired(key) == key \in DOMAIN store /\ now < store[key].expiresAt

CacheHitContract(r) ==
    LET c == call'[r]
    IN /\ (pc[r] \in CallPcs /\ pc'[r] # pc[r] /\ HasUnexpired(c.key))
          => /\ c.state = "returned"
             /\ c.tier = "cache"
             /\ c.ret = store[c.key].value
             /\ c.own = {CacheTagOf(c.prov)}
             /\ c.nested = {}
             /\ ctx'[r] = SetAdd(ctx[r], CacheTagOf(c.prov))
             /\ c.ext = << >>
             /\ store' = store
       /\ (/\ pc[r] = "places" /\ pc'[r] # pc[r]
           /\ c.cachedBefore = Undefined
           /\ cfg.openTripMap
           /\ HasUnexpired(destKey(ParamsOf(r, "places").destination)))
          => /\ pc'[r] = "radius"
             /\ c.ext = << "radius" >>
             /\ c.nested = {<<"cache", "opentripmap">>}
             /\ ctx'[r] = SetAdd(ctx[r], <<"cache", "opentripmap">>)
             /\ loc'[r].pending = store[destKey(ParamsOf(r, "places").destination)].value
             /\ store' = get_store(store, c.key, now)

C3_CacheHitReturnsEntryUntouched ==
    [][\A r \in Reqs : CacheHitContract(r)]_vars

C3_Witness ==
    \E r \in Reqs :
        /\ call[r].prov = "flights"
        /\ call[r].state = "returned"
        /\ call[r].tier = "cache"
        /\ "note" \notin DOMAIN call[r].ret
        /\ call[r].ret = store[call[r].key].value
        /\ call[r].at > lastSet[call[r].key].at
        /\ call[r].at < store[call[r].key].expiresAt

(***************************************************************************)
(* C4: a provider that returns a live result after a cache miss has added  *)
(* its live-source tag, the tags in `added` hold no mock tag, and the      *)
(* cache holds the result under the call's key until the default TTL after *)
(* the return; a call with the same key started before that TTL has        *)
(* elapsed returns the same value from the cache.                          *)
(***************************************************************************)
LiveTierContract(r, added) ==
    (ReturnedOnMiss(r) /\ call[r].tier = "live")
       => /\ LiveTagOf(call[r].prov) \in call[r].own
          /\ LiveTagOf(call[r].prov) \in Range(ctx[r])
          /\ added \cap MockTags = {}
          /\ call[r].key \in DOMAIN store
          /\ store[call[r].key] = CacheRecord(call[r].ret, call[r].at + DefaultTtl)

LaterCallFromCache(r) ==
    LET c == call'[r]
    IN (/\ pc[r] \in CallPcs /\ pc'[r] # pc[r]
        /\ c.key \in DOMAIN lastSet
        /\ lastSet[c.key].tier = "live"
        /\ now < lastSet[c.key].at + DefaultTtl)
       => /\ c.state = "returned"
          /\ c.tier = "cache"
          /\ c.ret = lastSet[c.key].value

\* C4 as stated: no mock tag is added during the invocation at all
C4_LiveTierAddsNoMockTag ==
    /\ [](\A r \in Reqs : LiveTierContract(r, call[r].own \cup call[r].nested))
    /\ [][\A r \in Reqs : LaterCallFromCache(r)]_vars

\* C4 amended: the provider's own statements add no mock tag (the
\* resolveDestination nested in nearbyAttractionsProvider may add one)
C4_LiveTierOwnTags ==
    /\ [](\A r \in Reqs : LiveTierContract(r, call[r].own))
    /\ [][\A r \in Reqs : LaterCallFromCache(r)]_vars

C4_Witness ==
    \E r \in Reqs :
        /\ call[r].prov = "places"
        /\ call[r].state = "returned"
        /\ call[r].tier = "cache"
        /\ lastSet[call[r].key].tier = "live"
        /\ call[r].ret = lastSet[call[r].key].value
        /\ call[r].at = lastSet[call[r].key].at + DefaultTtl - 1
        /\ <<"opentripmap", "mock">> \in Range(lastSet[call[r].key].provenance)

(***************************************************************************)
(* C5: whatever the configuration and the upstream failure, a result a     *)
(* provider returns from its mock tier carries an advisory note.           *)
(***************************************************************************)
C5_MockResultCarriesNote ==
    \A r \in Reqs :
        (ReturnedOnMiss(r) /\ call[r].tier = "mock") => "note" \in DOMAIN call[r].ret


(***************************************************************************)
(* C11: a planTrip run in which every capability it invokes resolves to    *)
(* its mock tier answers with meta.cached false and with a providers list  *)
(* of mock display names only (or the sentinel "mock-data").               *)
(***************************************************************************)
MockDisplayNames ==
    { <<"OpenTripMap (mock)">>, <<"Mock stays">>, <<"Mock flights">>,
      <<"Weather (mock)">>, <<"mock-data">> }

PlanAnswered(r) ==
    /\ pc[r] = "done"
    /\ input[r].tool = "planTrip"
    /\ resp[r].status = "ok"

AllMock(r) == \A p \in call[r].tiers : p[2] = "mock"

MockMeta(r) ==
    /\ resp[r].result.meta.cached = FALSE
    /\ Range(resp[r].result.meta.providers) \subseteq MockDisplayNames

DayNumber(date) ==
    LET a == (14 - date[2]) \div 12
        y == date[1] + 4800 - a
        m == date[2] + 12 * a - 3
    IN date[3] + (153 * m + 2) \div 5 + 365 * y + y \div 4 - y \div 100 + y \div 400 - 32045

IsCalendarDate(date) ==
    /\ Len(date) = 3
    /\ date[2] \in 1..12
    /\ date[3] >= 1
    /\ DayNumber(date) < DayNumber(IF date[2] < 12 THEN <<date[1], date[2] + 1, 1>>
                                   ELSE <<date[1] + 1, 1, 1>>)

C12_OneEntryPerConsecutiveDay ==
    applied.fn = "groupPlacesForItinerary" =>
        /\ Len(applied.result) = applied.days
        /\ \A i \in 0..(applied.days - 1) :
              /\ applied.result[i + 1].day = i + 1
              /\ IsCalendarDate(applied.result[i + 1].date)
              /\ DayNumber(applied.result[i + 1].date) = DayNumber(applied.startDate) + i

\* no candidate at all, and more candidates than slots, across the leap day
C12_Witness ==
    /\ applied.fn = "groupPlacesForItinerary"
    /\ applied.startDate = <<2024, 2, 28>>
    /\ applied.days = MaxDays
    /\ Len(applied.places) = 0
    /\ applied.result[2].date = <<2024, 2, 29>>
    /\ "name" \notin DOMAIN applied.result[1].morning


CategoryMatches(place, interests) ==
    {i \in interests : includes(toLowerCase(place.category), i)}
NameMatches(place, interests) ==
    {i \in interests : includes(toLowerCase(place.name), i)}

C14_ScoreFormula ==
    applied.fn = "computeInterestScore" =>
        /\ applied.result = 2 + 4 * Cardinality(CategoryMatches(applied.place, applied.interests))
                              + 3 * Cardinality(NameMatches(applied.place, applied.interests))
        /\ applied.interests = {} => applied.result = 2
        /\ applied.place.category \in applied.interests =>
              \A other \in HPlaces :
                  (CategoryMatches(other, applied.interests) = {}
                   /\ NameMatches(other, applied.interests) = {})
                      => applied.result > computeInterestScore(other, applied.interests)

\* a temple named "... Temple" under the keywords temple and market: 1 + 2 + 1.5,
\* above the food stop that matches neither
C14_Witness ==
    /\ applied.fn = "computeInterestScore"
    /\ applied.interests = {"temple", "market"}
    /\ applied.place.category = "temple"
    /\ applied.place.name = "Doi Suthep Temple"
    /\ applied.result = 9
    /\ \E other \in HPlaces : computeInterestScore(other, applied.interests) = 2


(***************************************************************************)
(* C15: computeCostEstimate returns lowUSD <= midUSD <= highUSD for every  *)
(* input: any day count from 1, any flight result (absent, empty, any list *)
(* of prices) and any list of up to three selected stays with any          *)
(* non-negative totalUSD per tier.                                         *)
(***************************************************************************)
BandsOrdered(estimate) ==
    estimate.lowUSD <= estimate.midUSD /\ estimate.midUSD <= estimate.highUSD

C15_CostBandsOrdered ==
    applied.fn = "computeCostEstimate" => BandsOrdered(applied.result)

\* the estimate of a plan assembled from the providers of the model
C15_PlanBandsOrdered ==
    \A r \in Reqs : PlanAnswered(r) => BandsOrdered(resp[r].result.costEstimate)


(***************************************************************************)
(* C16: planTrip for "Chiang Mai" from 2025-11-20 for 4 days, without an   *)
(* origin and without credentials, returns 4 itinerary days dated          *)
(* 2025-11-20 to 2025-11-23, a flights section with no option and the note *)
(* that no origin was provided (the flights provider is not invoked),      *)
(* 3 stays, one per tier, and a low estimate without a flight component.   *)
(***************************************************************************)
ReferencePlan(r) ==
    /\ pc[r] = "done"
    /\ cfg = NoConfig
    /\ input[r] = [PlanTripInput(UndefS, 4, UndefN, UndefTags)
                      EXCEPT !.startDate = <<2025, 11, 20>>]

ReferenceResult(plan) ==
    /\ [i \in 1..Len(plan.itinerary) |-> plan.itinerary[i].date]
          = << <<2025, 11, 20>>, <<2025, 11, 21>>, <<2025, 11, 22>>, <<2025, 11, 23>> >>
    /\ plan.flights.options = << >>
    /\ plan.flights.note = "No origin provided."
    /\ [i \in 1..Len(plan.stays) |-> plan.stays[i].type] = <<"budget", "mid", "premium">>
    /\ plan.costEstimate.lowUSD = plan.stays[1].totalUSD + 45 * 4

C16_ReferencePlan ==
    \A r \in Reqs :
        ReferencePlan(r) =>
            /\ resp[r].status = "ok"
            /\ ReferenceResult(resp[r].result)
            /\ "flights" \notin {p[1] : p \in call[r].tiers}
            /\ \A i \in 1..Len(ctx[r]) : ctx[r][i][1] # "flights"

C16_Witness ==
    \E r \in Reqs :
        /\ ReferencePlan(r)
        /\ resp[r].status = "ok"
        /\ Len(resp[r].result.itinerary) = 4
        /\ resp[r].result.itinerary[4].date = <<2025, 11, 23>>
        /\ Len(resp[r].result.stays) = 3
        /\ {p[1] : p \in call[r].tiers} = {"dest", "weather", "stays", "places"}


(***************************************************************************)
(* C17: when the weather upstream fails, weatherProvider called with       *)
(* {startDate, days} returns exactly `days` forecast records dated on      *)
(* consecutive days from startDate, each with high - low = 6 (degrees; the *)
(* model counts tenths).                                                   *)
(***************************************************************************)
WeatherFellBack(r) ==
    /\ call[r].prov = "weather"
    /\ call[r].state = "returned"
    /\ call[r].failed

C17_MockWeatherShape ==
    \A r \in Reqs :
        WeatherFellBack(r) =>
            LET params == ParamsOf(r, "weather")
                daily == call[r].ret.daily
            IN /\ Len(daily) = params.days
               /\ \A i \in 1..Len(daily) :
                     /\ IsCalendarDate(daily[i].date)
                     /\ DayNumber(daily[i].date) = DayNumber(params.startDate) + i - 1
                     /\ daily[i].hiC - daily[i].loC = 60

\* four days from 2025-11-29 into December after a failed forecast request
C17_Witness ==
    \E r \in Reqs :
        /\ WeatherFellBack(r)
        /\ ParamsOf(r, "weather").startDate = <<2025, 11, 29>>
        /\ Len(call[r].ret.daily) = 4
        /\ call[r].ret.daily[4].date = <<2025, 12, 2>>
        /\ call[r].ret.daily[4].hiC = 270
        /\ call[r].ret.daily[4].loC = 210


(***************************************************************************)
(* C20: groupPlacesForItinerary fills the slots (morning, afternoon,       *)
(* evening of day 1, then day 2, ...) with the candidates by descending    *)
(* score, candidates of equal score in their input order; without          *)
(* interests the candidates fill the slots in exactly their input order.   *)
(***************************************************************************)
\* slot k of an itinerary, counted from 1 across the days
SlotAt(itinerary, k) ==
    LET day == itinerary[(k - 1) \div 3 + 1]
    IN CASE (k - 1) % 3 = 0 -> day.morning
         [] (k - 1) % 3 = 1 -> day.afternoon
         [] (k - 1) % 3 = 2 -> day.evening

Holds(slot, place) ==
    /\ "name" \in DOMAIN slot
    /\ slot.name = place.name
    /\ slot.category = place.category
    /\ slot.estMinutes = place.estMinutes

\* the position of candidate i in a stable sort by descending score
StableRank(places, interests, i) ==
    LET score(j) == computeInterestScore(places[j], interestSetOf(interests))
    IN 1 + Cardinality({j \in 1..Len(places) : score(j) > score(i)})
         + Cardinality({j \in 1..(i - 1) : score(j) = score(i)})

C20_SlotsByStableDescendingScore ==
    applied.fn = "groupPlacesForItinerary" =>
        /\ \A i \in 1..Len(applied.places) :
              StableRank(applied.places, applied.interests, i) <= 3 * applied.days
                  => Holds(SlotAt(applied.result,
                                  StableRank(applied.places, applied.interests, i)),
                           applied.places[i])
        /\ applied.interests \in {UndefTags, << >>} =>
              \A i \in 1..Len(applied.places) :
                  i <= 3 * applied.days => Holds(SlotAt(applied.result, i), applied.places[i])

\* market, temple, food, temple under the keyword temple: the temples move ahead in
\* their order, market and food follow in theirs
C20_Witness ==
    /\ applied.fn = "groupPlacesForItinerary"
    /\ applied.interests = <<"temple">>
    /\ applied.days = MaxDays
    /\ [i \in 1..Len(applied.places) |-> applied.places[i].category]
          = <<"market", "temple", "food", "temple">>
    /\ applied.places[2].name = "Wat Chedi Luang"
    /\ applied.places[4].name = "Wat Chedi Luang"
    /\ applied.result[1].morning.name = "Wat Chedi Luang"
    /\ applied.result[1].afternoon.name = "Wat Chedi Luang"
    /\ applied.result[1].evening.category = "market"
    /\ applied.result[2].morning.category = "food"


(***************************************************************************)
(* C19: a tool call whose input fails validation is rejected with an error *)
(* message before any provider is invoked: no external request is made,    *)
(* the shared cache is left as it was, and no result is produced.          *)
(***************************************************************************)
RejectedAtTheBoundary(r) ==
    /\ pc'[r] = "done"
    /\ resp'[r].status = "error"
    /\ "error" \in DOMAIN resp'[r]
    /\ "result" \notin DOMAIN resp'[r]
    /\ call'[r].prov = "none"
    /\ call'[r].ext = << >>
    /\ ctx'[r] = << >>
    /\ store' = store

C19_InvalidInputIsRejected ==
    [][\A r \in Reqs :
          /\ (pc[r] = "idle" /\ pc'[r] # "idle" /\ input'[r] \in InvalidInputs)
                => RejectedAtTheBoundary(r)
          /\ (pc[r] = "done" /\ input[r] \in InvalidInputs /\ pc'[r] # pc[r])
                => (pc'[r] = "idle" /\ store' = store)]_vars

\* a plan for 0 days refused while the cache holds entries of an earlier call
C19_Witness ==
    \E r \in Reqs :
        /\ pc[r] = "done"
        /\ input[r] = PlanTripInput("bkk", 0, UndefN, UndefTags)
        /\ resp[r] = [status |-> "error", error |-> "days must be a positive integer."]
        /\ call[r] = NoCall
        /\ served = 1
        /\ store # EmptyStore


(***************************************************************************)
(* C18: in planTrip a failure in one capability degrades only its own      *)
(* section: two runs on equal input and equal initial cache that differ    *)
(* only in the upstream outcome of one capability, destination resolution  *)
(* included, give identical results in every other capability's section.   *)
(***************************************************************************)
\* a run answered with an error has no section at all
SameElsewhere ==
    /\ applied.first.status = applied.second.status
    /\ applied.first.status = "ok" =>
          \A capability \in Capabilities \ {applied.differs} :
              applied.first[capability] = applied.second[capability]

C18_FailureDegradesOwnSectionOnly ==
    applied.fn = "planTrip" => SameElsewhere

\* the same, for the runs in which the geoname endpoint, when it answers 200,
\* names the place
C18_IsolationWithNamedDestination ==
    (/\ applied.fn = "planTrip"
     /\ \A u \in {applied.u1, applied.u2} :
           /\ u.geoname # Response("ok", GeoNotFound)
           /\ u.placesGeoname # Response("ok", GeoNotFound))
        => SameElsewhere


(***************************************************************************)
(* C21: the candidate ranked k (from 0) after sorting, k < 3*days, is the  *)
(* one named in day k \div 3 + 1, slot (morning, afternoon, evening)[k % 3]; *)
(* no candidate is in more than one slot; a slot holds its filler text     *)
(* exactly when 3*dayIndex + slotIndex >= number of candidates; the three  *)
(* filler texts are pairwise distinct.                                     *)
(***************************************************************************)
SlotLead == <<"Start at", "Afternoon at", "Evening at">>
SlotOf(day, slotIndex) ==
    CASE slotIndex = 0 -> day.morning
      [] slotIndex = 1 -> day.afternoon
      [] slotIndex = 2 -> day.evening
IsFiller(slot) == DOMAIN slot = {"text"}

C21_SlotsTakeRankedCandidates ==
    applied.fn = "groupPlacesForItinerary" =>
        LET ranked == scoredPlaces(applied.places, applied.interests)
            count == Len(applied.places)
            Slots == (0..(applied.days - 1)) \X (0..2)
            fillers == {SlotOf(applied.result[s[1] + 1], s[2]).text :
                           s \in {t \in Slots : IsFiller(SlotOf(applied.result[t[1] + 1], t[2]))}}
        IN /\ Len(ranked) = count
           /\ \A k \in 0..(count - 1) :
                 k < 3 * applied.days =>
                    LET slot == SlotOf(applied.result[k \div 3 + 1], k % 3)
                    IN /\ Holds(slot, ranked[k + 1])
                       /\ slot.text = SlotLead[(k % 3) + 1]
           \* the slots that name a candidate are as many as the candidates they can take
           /\ Cardinality({s \in Slots : ~IsFiller(SlotOf(applied.result[s[1] + 1], s[2]))})
                 = Min(count, 3 * applied.days)
           /\ \A s \in Slots :
                 IsFiller(SlotOf(applied.result[s[1] + 1], s[2])) <=> 3 * s[1] + s[2] >= count
           /\ \A s, t \in Slots :
                 /\ IsFiller(SlotOf(applied.result[s[1] + 1], s[2]))
                 /\ IsFiller(SlotOf(applied.result[t[1] + 1], t[2]))
                 => (SlotOf(applied.result[s[1] + 1], s[2]).text
                        = SlotOf(applied.result[t[1] + 1], t[2]).text <=> s[2] = t[2])

\* four distinct candidates over two days: day 2 has a candidate in the morning and
\* fillers of different text in the afternoon and the evening
C21_Witness ==
    /\ applied.fn = "groupPlacesForItinerary"
    /\ applied.days = 2
    /\ Len(applied.places) = 4
    /\ Cardinality({applied.places[i] : i \in 1..4}) = 4
    /\ ~IsFiller(applied.result[2].morning)
    /\ IsFiller(applied.result[2].afternoon)
    /\ IsFiller(applied.result[2].evening)
    /\ applied.result[2].afternoon.text # applied.result[2].evening.text


(***************************************************************************)
(* C22: the flight components of low/mid/high in computeCostEstimate are   *)
(* the 1st/2nd/3rd smallest prices of the flight options; with two prices  *)
(* high equals mid, with one price mid and high equal low, with no option  *)
(* or no flight result all three are 0.                                    *)
(***************************************************************************)
\* what the flights add to the three bands: the estimate less the estimate of the
\* same stay without a flight result
FlightPart(a) ==
    LET base == computeCostEstimate(a.days, a.stays, Undefined, a.budget, FALSE, << >>)
    IN [low |-> a.result.lowUSD - base.lowUSD,
        mid |-> a.result.midUSD - base.midUSD,
        high |-> a.result.highUSD - base.highUSD]

OptionPrices(a) ==
    IF "options" \in DOMAIN a.flights
    THEN [i \in 1..Len(a.flights.options) |-> a.flights.options[i].priceUSD]
    ELSE << >>

\* band is the price at position rank of the prices taken in ascending order
IsRanked(prices, band, rank) ==
    \E i \in 1..Len(prices) :
        /\ prices[i] = band
        /\ Cardinality({j \in 1..Len(prices) : prices[j] < band}) < rank
        /\ Cardinality({j \in 1..Len(prices) : prices[j] <= band}) >= rank

BandsOfPrices(prices, part) ==
    IF Len(prices) = 0 THEN part = [low |-> 0, mid |-> 0, high |-> 0]
    ELSE /\ IsRanked(prices, part.low, 1)
         /\ IsRanked(prices, part.mid, Min(2, Len(prices)))
         /\ IsRanked(prices, part.high, Min(3, Len(prices)))

\* as stated: over the prices of all returned options (where each price is a number)
C22_FlightBandsFromAllPrices ==
    (applied.fn = "computeCostEstimate"
        /\ \A i \in 1..Len(OptionPrices(applied)) : OptionPrices(applied)[i] # NaN)
    => BandsOfPrices(OptionPrices(applied), FlightPart(applied))

\* as the code computes them: over the prices that are finite and greater than 0
C22_FlightBandsFromUsablePrices ==
    applied.fn = "computeCostEstimate" =>
        LET usable == SelectSeq(OptionPrices(applied), LAMBDA price : price # NaN /\ price > 0)
            part == FlightPart(applied)
        IN /\ BandsOfPrices(usable, part)
           /\ Len(usable) = 2 => part.high = part.mid
           /\ Len(usable) = 1 => part.mid = part.low /\ part.high = part.low
           /\ Len(usable) = 0 => part.low = 0 /\ part.mid = 0 /\ part.high = 0

\* three options priced 250, 0 and 90: the option without a usable price is left out
C22_Witness ==
    /\ applied.fn = "computeCostEstimate"
    /\ OptionPrices(applied) = <<250, 0, 90>>
    /\ applied.stays # << >>
    /\ FlightPart(applied) = [low |-> 90, mid |-> 250, high |-> 250]


(***************************************************************************)
(* C23: the lodging components of low/mid/high in computeCostEstimate are  *)
(* the totalUSD of the budget/mid/premium stay; a missing mid tier takes   *)
(* the budget value, a missing premium tier takes the (possibly            *)
(* substituted) mid value, a missing budget tier contributes 0.            *)
(***************************************************************************)
\* what the stays add to the three bands: the estimate less the estimate of the
\* same flights without a stay
LodgingPart(a) ==
    LET base == computeCostEstimate(a.days, << >>, a.flights, a.budget,
                                    a.flights # Undefined, << >>)
    IN [low |-> a.result.lowUSD - base.lowUSD,
        mid |-> a.result.midUSD - base.midUSD,
        high |-> a.result.highUSD - base.highUSD]

HasTier(stays, type) == \E i \in 1..Len(stays) : stays[i].type = type
TierTotal(stays, type) == stays[CHOOSE i \in 1..Len(stays) : stays[i].type = type].totalUSD

C23_LodgingBandsByTier ==
    applied.fn = "computeCostEstimate" =>
        LET stays == applied.stays
            part == LodgingPart(applied)
        IN /\ part.low = IF HasTier(stays, "budget") THEN TierTotal(stays, "budget") ELSE 0
           /\ part.mid = IF HasTier(stays, "mid") THEN TierTotal(stays, "mid") ELSE part.low
           /\ part.high = IF HasTier(stays, "premium") THEN TierTotal(stays, "premium")
                          ELSE part.mid

\* a budget stay alone: mid takes its total, premium takes the substituted mid
C23_Witness ==
    /\ applied.fn = "computeCostEstimate"
    /\ applied.stays = << [type |-> "budget", totalUSD |-> 300] >>
    /\ applied.flights # Undefined
    /\ LodgingPart(applied) = [low |-> 300, mid |-> 300, high |-> 300]


(***************************************************************************)
(* C24: whenever a budget is supplied to computeCostEstimate (any finite   *)
(* number >= 0, as the validator accepts), the notes contain an advisory   *)
(* that says "within" if midUSD <= budget and "above" otherwise; without a *)
(* budget the notes contain no such advisory.                              *)
(***************************************************************************)
AdvisoryWithin == "Mid-range estimate is within budget."
AdvisoryAbove == "Mid-range estimate is above budget."
Advisories(estimate) ==
    {estimate.notes[i].text : i \in 1..Len(estimate.notes)} \cap {AdvisoryWithin, AdvisoryAbove}

BudgetAdvisory(budget, estimate) ==
    IF budget = UndefN THEN Advisories(estimate) = {}
    ELSE Advisories(estimate) =
            {IF estimate.midUSD <= budget THEN AdvisoryWithin ELSE AdvisoryAbove}

C24_BudgetAdvisory ==
    applied.fn = "computeCostEstimate" => BudgetAdvisory(applied.budget, applied.result)

\* the statement restricted to budgets greater than 0
C24_PositiveBudgetAdvisory ==
    (applied.fn = "computeCostEstimate" /\ applied.budget # 0)
        => BudgetAdvisory(applied.budget, applied.result)

\* a budget met exactly by the mid estimate counts as within
C24_BoundaryReached ==
    /\ applied.fn = "computeCostEstimate"
    /\ applied.budget = 375
    /\ applied.result.midUSD = 375
    /\ Advisories(applied.result) = {AdvisoryWithin}


(***************************************************************************)
(* C25: in planTrip, every capability (flights, stays, places, weather)    *)
(* that fell back to its mock tier has an advisory note on its result, and *)
(* the same note is in costEstimate.notes; the provider notes stand in the *)
(* order flights, stays, places, weather.                                  *)
(***************************************************************************)
\* the provider's result held by the handler has a note, and the estimate repeats it
NotePropagated(r, prov) ==
    LET result == loc[r][LocalOf(prov)]
    IN /\ "note" \in DOMAIN result
       /\ result.note # ""
       /\ \E i \in 1..Len(resp[r].result.costEstimate.notes) :
             resp[r].result.costEstimate.notes[i] = CostNote(result.note)

\* the notes of the providers that have one, in the order of the estimate's notes
NoteOrder(r) ==
    LET notes == resp[r].result.costEstimate.notes
        at(prov) == {i \in 1..Len(notes) :
                        /\ "note" \in DOMAIN loc[r][LocalOf(prov)]
                        /\ notes[i] = CostNote(loc[r][LocalOf(prov)].note)}
        before(p, q) == \A i \in at(p), j \in at(q) : i < j
    IN /\ before("flights", "stays")
       /\ before("stays", "places")
       /\ before("flights", "places")
       /\ before("places", "weather")

C25_MockNotesReachTheEstimate ==
    \A r \in Reqs :
        PlanAnswered(r) =>
            /\ \A prov \in {"flights", "stays", "places", "weather"} :
                  <<prov, "mock">> \in call[r].tiers => NotePropagated(r, prov)
            /\ NoteOrder(r)

\* the statement without the weather capability
C25_FlightsStaysPlacesNotes ==
    \A r \in Reqs :
        PlanAnswered(r) =>
            /\ \A prov \in {"flights", "stays", "places"} :
                  <<prov, "mock">> \in call[r].tiers => NotePropagated(r, prov)
            /\ NoteOrder(r)

\* a plan whose flights, stays and places all fell back: three notes in the estimate
C25_ThreeNotes ==
    \E r \in Reqs :
        /\ PlanAnswered(r)
        /\ {<<"flights", "mock">>, <<"stays", "mock">>, <<"places", "mock">>}
              \subseteq call[r].tiers
        /\ Len(resp[r].result.costEstimate.notes) >= 4


(***************************************************************************)
(* C26: weatherProvider called with {lat, lon, startDate, days} returns    *)
(* exactly `days` forecast entries, whichever tier produced the result     *)
(* (cache, live or mock) and however many daily records the live source    *)
(* returned.                                                               *)
(***************************************************************************)
WeatherReturned(r) ==
    /\ call[r].prov = "weather"
    /\ call[r].state = "returned"

C26_OneEntryPerRequestedDay ==
    \A r \in Reqs :
        WeatherReturned(r) => Len(call[r].ret.daily) = ParamsOf(r, "weather").days

\* the statement for the results the mock tier produced in this call
C26_MockTierEntries ==
    \A r \in Reqs :
        (WeatherReturned(r) /\ call[r].tier = "mock")
            => Len(call[r].ret.daily) = ParamsOf(r, "weather").days

\* the live tier passes on the records of the source, one more than the days asked
C26_LiveTierPassesRecordsOn ==
    \E r \in Reqs :
        /\ WeatherReturned(r)
        /\ call[r].tier = "live"
        /\ Len(call[r].ret.daily) = ParamsOf(r, "weather").days + 1


(***************************************************************************)
(* C27: in the live flights path the access-token request comes before the *)
(* offers query, and the offers query is issued only if the token request  *)
(* succeeded; a failed token request (non-success status, error, or no     *)
(* token in the answer) makes searchFlightsProvider return the mock        *)
(* flights tagged flights:mock.                                            *)
(***************************************************************************)
TokenFailed(response) ==
    \/ response.kind # "ok"
    \/ "access_token" \notin DOMAIN response.body

ReturnsMockFlights(r) ==
    /\ call'[r].state = "returned"
    /\ call'[r].tier = "mock"
    /\ call'[r].ext = <<"token">>
    /\ call'[r].ret.options = buildMockFlights(ParamsOf(r, "flights"))
    /\ <<"flights", "mock">> \in Range(ctx'[r])
    /\ <<"amadeus">> \notin Range(ctx'[r])

OffersOnlyAfterToken(r) ==
    (pc[r] # "offers" /\ pc'[r] = "offers") =>
        /\ pc[r] = "token"
        /\ call[r].ext = <<"token">>
        /\ call'[r].ext = <<"token", "offers">>
        /\ \E response \in TokenResponses : ~TokenFailed(response) /\ ReplyToken(r, response)

C27_TokenThenOffersElseMock ==
    [][\A r \in Reqs :
          /\ OffersOnlyAfterToken(r)
          /\ \A response \in TokenResponses :
                (ReplyToken(r, response) /\ TokenFailed(response))
                    => (pc'[r] # "offers" /\ ReturnsMockFlights(r))]_vars

\* the statement for the calls whose destination has a name
C27_WithNamedDestination ==
    [][\A r \in Reqs :
          /\ OffersOnlyAfterToken(r)
          /\ \A response \in TokenResponses :
                (ReplyToken(r, response) /\ TokenFailed(response)
                    /\ ~upperCaseThrows(ParamsOf(r, "flights")))
                    => (pc'[r] # "offers" /\ ReturnsMockFlights(r))]_vars

\* both ends of the path: the offers query after a token, and mock flights after a
\* token request that failed
C27_OffersAfterToken ==
    \E r \in Reqs : pc[r] = "offers" /\ call[r].ext = <<"token", "offers">>

C27_MockAfterFailedToken ==
    \E r \in Reqs :
          /\ call[r].prov = "flights"
          /\ call[r].state = "returned"
          /\ call[r].tier = "mock"
          /\ call[r].ext = <<"token">>
          /\ call[r].failed


(***************************************************************************)
(* C28: a live flights result has at least 1 and at most 5 options, and    *)
(* they are the cheapest of the offers the source returned: no returned    *)
(* offer that was left out is cheaper than an offer that was kept.         *)
(***************************************************************************)
\* an offer of the answer is among the options: an option has its carrier and price
OfferKept(offer, options) ==
    /\ "segments" \in DOMAIN offer
    /\ Len(offer.segments) > 0
    /\ \E i \in 1..Len(options) :
          /\ options[i].carrier = offer.segments[1].carrierCode
          /\ options[i].priceUSD = (IF offer.total = UndefN THEN 0
                                    ELSE RoundDiv(offer.total, 100))

CheapestKept(offers, options) ==
    \A i, j \in 1..Len(offers) :
        (/\ OfferKept(offers[i], options)
         /\ ~OfferKept(offers[j], options)
         /\ offers[i].total # UndefN
         /\ offers[j].total # UndefN)
        => offers[i].total <= offers[j].total

C28_LiveOptionsAreTheCheapest ==
    [][\A r \in Reqs : \A response \in OffersResponses :
          (ReplyOffers(r, response) /\ call'[r].tier = "live")
              => /\ Len(call'[r].ret.options) \in 1..5
                 /\ CheapestKept(response.body.data, call'[r].ret.options)]_vars

\* the bound alone
C28_LiveOptionsBounded ==
    \A r \in Reqs :
        (call[r].prov = "flights" /\ call[r].state = "returned" /\ call[r].tier = "live")
            => Len(call[r].ret.options) \in 1..5

\* six offers answered, the sixth the cheapest: the result keeps three of the first
\* five and not the cheapest
C28_CheapestLeftOut ==
    \E r \in Reqs :
        /\ call[r].prov = "flights"
        /\ call[r].state = "returned"
        /\ call[r].tier = "live"
        /\ Len(call[r].ret.options) = 4
        /\ ~OfferKept(OffersSix[6], call[r].ret.options)
        /\ OfferKept(OffersSix[1], call[r].ret.options)


(***************************************************************************)
(* C29: searchStaysProvider never makes a live call, whatever the          *)
(* configuration: on a cache miss it tags stays:mock and returns a mock    *)
(* list with at least one option of each of the three tiers, and           *)
(* totalUSD = pricePerNightUSD * nights for every option.                  *)
(***************************************************************************)
StaysReturned(r) ==
    /\ call[r].prov = "stays"
    /\ call[r].state = "returned"

C29_StaysAlwaysMock ==
    \A r \in Reqs :
        /\ call[r].prov = "stays" => call[r].ext = << >>
        /\ (StaysReturned(r) /\ call[r].cachedBefore = Undefined) =>
              LET options == call[r].ret.options
              IN /\ call[r].tier = "mock"
                 /\ call[r].own = {<<"stays", "mock">>}
                 /\ <<"stays", "mock">> \in Range(ctx[r])
                 /\ \A type \in {"budget", "mid", "premium"} :
                       \E i \in 1..Len(options) : options[i].type = type
                 /\ \A i \in 1..Len(options) :
                       options[i].totalUSD
                          = options[i].pricePerNightUSD * ParamsOf(r, "stays").nights

\* with a Booking key configured the provider still answers from the curated list
C29_Witness ==
    \E r \in Reqs :
        /\ StaysReturned(r)
        /\ call[r].cachedBefore = Undefined
        /\ cfg.booking
        /\ ParamsOf(r, "stays").nights = 4
        /\ call[r].ret.options[1].pricePerNightUSD = 35
        /\ call[r].ret.options[1].totalUSD = 140


(***************************************************************************)
(* C30: when the live places source answers successfully but no result is  *)
(* usable after filtering (no feature has a name), nearbyAttractionsProvider *)
(* treats it as a failure: it returns the mock places with an advisory     *)
(* note, tags the mock source and not the live source for this lookup, and *)
(* caches the mock result.                                                 *)
(***************************************************************************)
\* a 2xx answer with a JSON body in which no feature has a name
NothingUsable(response) ==
    /\ response.kind = "ok"
    /\ response.body # BadJson
    /\ \/ "features" \notin DOMAIN response.body
       \/ \A i \in 1..Len(response.body.features) : response.body.features[i].name = ""

C30_NoUsablePlaceFallsBackToMock ==
    [][\A r \in Reqs : \A response \in RadiusResponses :
          (ReplyRadius(r, response) /\ NothingUsable(response)) =>
              LET params == ParamsOf(r, "places")
              IN /\ call'[r].state = "returned"
                 /\ call'[r].tier = "mock"
                 /\ "note" \in DOMAIN call'[r].ret
                 /\ call'[r].ret.note # ""
                 /\ call'[r].ret.options = Slice(MOCK_PLACES, limitOf(params))
                 /\ call'[r].own = {<<"opentripmap", "mock">>}
                 /\ <<"opentripmap", "mock">> \in Range(ctx'[r])
                 /\ get_value(store', placesKey(params), now) = call'[r].ret]_vars

\* the destination of this call was resolved live, the radius answer named no place
C30_Witness ==
    \E r \in Reqs :
        /\ call[r].prov = "places"
        /\ call[r].state = "returned"
        /\ call[r].ext = <<"geoname", "radius">>
        /\ ~call[r].failed
        /\ <<"opentripmap">> \in call[r].nested
        /\ call[r].ret.note = NOTE_PLACES_EMPTY
        /\ call[r].own = {<<"opentripmap", "mock">>}


(***************************************************************************)
(* C31: selectStayTiers returns at most one option per tier for every      *)
(* input list: no two returned entries have the same tier, and a tier      *)
(* absent from the input is absent from the selection.                     *)
(***************************************************************************)
TiersOf(stays) == {stays[i].type : i \in 1..Len(stays)}

C31_AtMostOnePerTier ==
    applied.fn = "selectStayTiers" =>
        /\ \A i, j \in 1..Len(applied.result) :
              i # j => applied.result[i].type # applied.result[j].type
        /\ TiersOf(applied.result) \subseteq TiersOf(applied.options)

\* what holds for every list: the selection is taken from the input, a tier of the
\* input is in the selection, and a list that has all three tiers gives one of each
C31_SelectionFromInput ==
    applied.fn = "selectStayTiers" =>
        /\ Range(applied.result) \subseteq Range(applied.options)
        /\ TiersOf(applied.result) = TiersOf(applied.options)
        /\ Len(applied.result) <= 3
        /\ TiersOf(applied.options) = {"budget", "mid", "premium"} =>
              [i \in 1..Len(applied.result) |-> applied.result[i].type]
                 = <<"budget", "mid", "premium">>

\* a single budget option fills the mid and the premium places as well
C31_TierRepeated ==
    /\ applied.fn = "selectStayTiers"
    /\ Len(applied.options) = 1
    /\ [i \in 1..Len(applied.result) |-> applied.result[i].type]
          = <<"budget", "budget", "budget">>


(***************************************************************************)
(* C35: in live places results the estimated visit duration is determined  *)
(* by the display category: two places that mapKindsToCategory gives the   *)
(* same category get the same estMinutes from mapKindsToDuration, for      *)
(* every source tag string.                                                *)
(***************************************************************************)
C35_DurationByCategory ==
    (applied.fn = "mapKinds" /\ applied.category[1] = applied.category[2])
        => applied.estMinutes[1] = applied.estMinutes[2]

\* reached: two single-word tag strings of one category with two durations
C35_SpiritualTwoDurations ==
    /\ applied.fn = "mapKinds"
    /\ applied.kinds = << {"churches"}, {"religion"} >>
    /\ applied.category = << "spiritual", "spiritual" >>
    /\ applied.estMinutes = << 90, 120 >>

\* a temple that is tagged as a place to eat is a 90 minutes temple, a plain one 120
C35_TempleTwoDurations ==
    /\ applied.fn = "mapKinds"
    /\ applied.kinds = << {"temples"}, {"temples", "foods"} >>
    /\ applied.category = << "temple", "temple" >>
    /\ applied.estMinutes = << 120, 90 >>


(***************************************************************************)
(* C40: set on a key that already has an entry replaces both the value and *)
(* the expiry (expiry = time of the latest set + its TTL), so the store    *)
(* holds at most one record per key and an overwritten value is never      *)
(* returned again; a per-call ttlMs overrides the default TTL (6 hours)    *)
(* for that entry only.                                                    *)
(***************************************************************************)
\* the TTL the claim gives to a set
C40_Ttl(options) == IF options = Undefined THEN 6 ELSE options.ttlMs

\* a get returns nothing but the value of the latest set on its key
C40_OnlyLatestReturned ==
    (lastOp.op = "get" /\ lastOp.result # Undefined) =>
        /\ lastSet[lastOp.key] # NoSet
        /\ lastOp.result = lastSet[lastOp.key].value

\* a set leaves under its key the one record (value, now + TTL) and touches no other key
C40_SetStep ==
    \A k \in HKeys, v \in HValues, o \in CacheOptions :
        Set(k, v, o) =>
            /\ DOMAIN store' = DOMAIN store \cup {k}
            /\ store'[k] = CacheRecord(v, now + C40_Ttl(o))
            /\ \A other \in DOMAIN store \ {k} : store'[other] = store[other]

C40_SetReplacesValueAndExpiry == []C40_OnlyLatestReturned /\ [][C40_SetStep]_vars

\* a set with a per-call TTL has just replaced a live entry that held another value,
\* while the other key keeps an entry written with the default TTL
C40_Witness ==
    /\ lastOp.op = "set"
    /\ lastOp.replaced
    /\ lastSet[lastOp.key].ttl = 1
    /\ store[lastOp.key] = CacheRecord(lastSet[lastOp.key].value, now + 1)
    /\ \E k \in HKeys \ {lastOp.key} :
          /\ lastSet[k] # NoSet
          /\ k \in DOMAIN store
          /\ store[k].expiresAt = lastSet[k].at + DefaultTtl


(***************************************************************************)
(* C34: the provenance set of a request is append-only: every provider     *)
(* invocation adds at least one tag to it and no operation ever removes a  *)
(* tag, so the set after any prefix of the request's provider calls is a   *)
(* subset of the set at response time.                                     *)
(***************************************************************************)
IsPrefix(s, t) == Len(s) <= Len(t) /\ SubSeq(t, 1, Len(s)) = s

\* a provider invocation that has ended, by a return or by a throw, has added a tag
C34_EveryInvocationTags ==
    \A r \in Reqs :
        call[r].state \in {"returned", "threw"} =>
            /\ call[r].own # {}
            /\ call[r].own \cup call[r].nested \subseteq Range(ctx[r])

\* from the first provider call to the response the set only grows at its end
C34_NoTagRemoved ==
    \A r \in Reqs :
        (pc[r] \notin {"idle", "done"} /\ pc'[r] # "idle") => IsPrefix(ctx[r], ctx'[r])

C34_ProvenanceAppendOnly == []C34_EveryInvocationTags /\ [][C34_NoTagRemoved]_vars

\* a plan at response time whose set grew over four provider calls
C34_Witness ==
    /\ pc[1] = "done"
    /\ input[1].tool = "planTrip"
    /\ resp[1].status = "ok"
    /\ Len(ctx[1]) >= 4
    /\ Len(resp[1].result.meta.providers) >= 3


(***************************************************************************)
(* C32: there is no retry: within one provider invocation each external    *)
(* endpoint is requested at most once, and after the first failed live     *)
(* attempt the provider goes to the mock tier without issuing any further  *)
(* live request.                                                           *)
(***************************************************************************)
AwaitPcs == {"geoname", "forecast", "token", "offers", "places_geoname", "radius"}

\* the endpoints requested by the invocation so far are all different
C32_EachEndpointOnce ==
    \A r \in Reqs :
        \A i, j \in 1..Len(call[r].ext) : i # j => call[r].ext[i] # call[r].ext[j]

\* the step is the answer of an endpoint to request r, and the answer is a failure
FailedAnswer(r) == pc[r] \in AwaitPcs /\ pc'[r] # pc[r] /\ call'[r].failed

\* after a failed answer the invocation ends, and when it returns it is with mock data
EndsInMock(r) ==
    /\ call'[r].state \in {"returned", "threw"}
    /\ call'[r].ext = call[r].ext
    /\ call'[r].state = "returned" => call'[r].tier = "mock"

C32_FailureEndsInMock == \A r \in Reqs : FailedAnswer(r) => EndsInMock(r)

C32_NoRetry == []C32_EachEndpointOnce /\ [][C32_FailureEndsInMock]_vars

\* the same, but for the lookup nested in nearbyAttractionsProvider: resolveDestination
\* ends with the mock destination and nearbyAttractionsProvider goes on to the radius query
C32_FailureEndsTheFunctionInMock ==
    \A r \in Reqs :
        FailedAnswer(r) =>
            IF pc[r] = "places_geoname"
            THEN /\ call'[r].state = "await"
                 /\ call'[r].ext = <<"geoname", "radius">>
                 /\ MockTagOf("dest") \in call'[r].nested
                 /\ loc'[r].pending = MOCK_DESTINATION
            ELSE EndsInMock(r)

C32_NoRetryPerFunction == []C32_EachEndpointOnce /\ [][C32_FailureEndsTheFunctionInMock]_vars

\* the token endpoint failed and the flights came back from the mock tier with no offers query
C32_Witness ==
    /\ call[1].prov = "flights"
    /\ call[1].failed
    /\ call[1].ext = <<"token">>
    /\ call[1].state = "returned"
    /\ call[1].tier = "mock"

\* reached: the radius query issued after the nested lookup failed
C32_RadiusAfterFailedLookup ==
    /\ pc[1] = "radius"
    /\ call[1].failed
    /\ call[1].ext = <<"geoname", "radius">>


(***************************************************************************)
(* C36: a planTrip call that starts with an empty shared cache reports     *)
(* meta.cached = false, for every configuration (with or without an        *)
(* OpenTripMap key) and every upstream outcome: the cached flag is true    *)
(* only when some result was served from an entry written by an earlier    *)
(* request.                                                                *)
(***************************************************************************)
\* the first tool call of the server is a planTrip and has been answered with a plan:
\* nothing was in the cache when it started
FirstPlanAnswered ==
    /\ served = 0
    /\ pc[1] = "done"
    /\ input[1].tool = "planTrip"
    /\ resp[1].status = "ok"

C36_EmptyCacheNotCached == FirstPlanAnswered => ~resp[1].result.meta.cached

\* what holds: without an OpenTripMap key the flag is false, and with one the only cache
\* tag is that of the destination entry the plan wrote itself
C36_CachedOnlyByOwnDestination ==
    FirstPlanAnswered =>
        /\ ~cfg.openTripMap => ~resp[1].result.meta.cached
        /\ {tag \in Range(ctx[1]) : startsWithCache(tag)} \subseteq {<<"cache", "opentripmap">>}
        /\ resp[1].result.meta.cached =>
              /\ destKey(input[1].destination) \in DOMAIN lastSet
              /\ lastSet[destKey(input[1].destination)].at = now

\* reached: a first plan that reports cached = true
C36_FirstPlanCached ==
    /\ FirstPlanAnswered
    /\ cfg.openTripMap
    /\ resp[1].result.meta.cached


(***************************************************************************)
(* Tool calls that overlap.  Each call of executeTool runs its handler as  *)
(* an async function: between two awaits a handler runs alone, and at an   *)
(* await another request, a timer or a new server may run.  All requests   *)
(* share the cache (createTripMcpServer: options.cache ?? defaultCache);   *)
(* a server built later over the same cache may have other credentials.    *)
(***************************************************************************)
ConcInputs ==
    { ToolInput("searchFlights", FlightSearchParams("bkk", "Chiang Mai", <<2025, 11, 29>>, 1)),
      ToolInput("nearbyAttractions", AttractionSearchParams("Chiang Mai", UndefTags, 2)),
      ToolInput("weather", WeatherQueryParams(18788300, 98985300, <<2025, 11, 29>>, 4)) }

\* createTripMcpServer(options): a toolset with another providerConfig, same cache
Reconfigure(config) ==
    /\ InFlight = {}
    /\ config # cfg
    /\ cfg' = config
    /\ UNCHANGED <<applied, cacheVars, metaVars, pc, input, ctx, loc, call, resp, served>>

ConcStep(r) ==
    \/ CallWeather(r)
    \/ ReplyForecast(r)
    \/ CallFlights(r)
    \/ \E response \in TokenResponses : ReplyToken(r, response)
    \/ \E response \in OffersResponses : ReplyOffers(r, response)
    \/ CallPlaces(r)
    \/ \E response \in GeonameResponses : ReplyPlacesGeoname(r, response)
    \/ \E response \in RadiusResponses : ReplyRadius(r, response)
    \/ Finish(r)
    \/ Respond(r)

ConcNext ==
    \/ \E r \in Reqs, in \in ConcInputs : Start(r, in)
    \/ \E r \in Reqs : ConcStep(r)
    \/ \E d \in {DefaultTtl - 1, DefaultTtl + 1} : Tick(d)
    \/ \E config \in Configs : Reconfigure(config)

SpecConc == Init /\ [][ConcNext]_vars


(***************************************************************************)
(* C37: mock results are cached like live ones: after a provider has       *)
(* fallen back to mock for some parameters, every later invocation with    *)
(* the same parameters before the entry expires makes no live attempt and  *)
(* returns that mock result from the cache, even if the upstream has       *)
(* recovered or credentials are now present; a live attempt for those      *)
(* parameters happens again only after the entry's TTL has elapsed.        *)
(***************************************************************************)
\* the step is the start of a provider invocation in request r
CallStep(r) == pc[r] \in CallPcs /\ pc'[r] # pc[r]

\* the cache holds an unexpired mock result under key
MockEntry(key) ==
    /\ key \in DOMAIN store
    /\ key \in DOMAIN lastSet
    /\ lastSet[key].tier = "mock"
    /\ store[key].value = lastSet[key].value
    /\ now < store[key].expiresAt

C37_Step ==
    \A r \in Reqs :
        CallStep(r) =>
            /\ MockEntry(call'[r].key) =>
                  /\ call'[r].state = "returned"
                  /\ call'[r].tier = "cache"
                  /\ call'[r].ext = << >>
                  /\ call'[r].ret = store[call'[r].key].value
                  /\ store' = store
            /\ (/\ call'[r].state = "await"
                /\ call'[r].key \in DOMAIN lastSet
                /\ lastSet[call'[r].key].tier = "mock")
               => lastSet[call'[r].key].at + DefaultTtl < now

C37_MockServedUntilExpiry == [][C37_Step]_vars

\* a flights search answered from a mock entry written earlier, by a server that has
\* Amadeus credentials
C37_Witness ==
    \E r \in Reqs :
        /\ call[r].prov = "flights"
        /\ call[r].state = "returned"
        /\ call[r].tier = "cache"
        /\ cfg.amadeus
        /\ lastSet[call[r].key].tier = "mock"
        /\ lastSet[call[r].key].at < now
        /\ call[r].ret = lastSet[call[r].key].value
        /\ call[r].ext = << >>

\* reached: a live attempt for parameters whose mock entry has expired
C37_LiveAgainAfterTtl ==
    \E r \in Reqs :
        /\ call[r].prov = "weather"
        /\ call[r].state = "await"
        /\ call[r].key \in DOMAIN lastSet
        /\ lastSet[call[r].key].tier = "mock"
        /\ lastSet[call[r].key].at + DefaultTtl < now


(***************************************************************************)
(* C38: once a live result has been stored in the cache under a key, the   *)
(* entry under that key is not replaced by a mock result while it is       *)
(* unexpired, under any interleaving of concurrent invocations with the    *)
(* same parameters.                                                        *)
(***************************************************************************)
\* the cache holds an unexpired live result under key
LiveEntry(key) ==
    /\ key \in DOMAIN store
    /\ key \in DOMAIN lastSet
    /\ lastSet[key].tier = "live"
    /\ store[key].value = lastSet[key].value
    /\ now < store[key].expiresAt

\* the step stores a mock result under key
MockWritten(key) ==
    /\ key \in DOMAIN lastSet'
    /\ lastSet'[key].tier = "mock"
    /\ key \in DOMAIN lastSet => lastSet'[key] # lastSet[key]
    /\ store'[key].value = lastSet'[key].value

C38_Step == \A key \in DOMAIN store : LiveEntry(key) => ~MockWritten(key)

C38_ReplacedOnlyByOverlapping ==
    [][\A key \in DOMAIN store :
          (LiveEntry(key) /\ MockWritten(key)) =>
              \E r \in Reqs : /\ call[r].key = key
                              /\ call[r].state = "await"
                              /\ call[r].cachedBefore = Undefined
                              /\ call'[r].state = "returned"
                              /\ call'[r].tier = "mock"]_vars

\* reached: the two searches overlapped, one stored live fares and the other then stored
\* mock fares over them, at the same clock value
C38_MockOverLive ==
    /\ call[1].prov = "flights" /\ call[2].prov = "flights"
    /\ call[1].key = call[2].key
    /\ call[1].state = "returned" /\ call[1].tier = "live"
    /\ call[2].state = "returned" /\ call[2].tier = "mock"
    /\ lastSet[call[1].key].tier = "mock"
    /\ store[call[1].key].value = call[2].ret
    /\ now = 0


(***************************************************************************)
(* C33: when two invocations of the same provider with identical           *)
(* parameters interleave at their await points on the shared cache, both   *)
(* complete and return a result (each may make its own live call), and     *)
(* once both have finished the cache entry for that key holds the result   *)
(* written by whichever invocation wrote last; the entry is always a value *)
(* that one of the invocations returned.                                   *)
(***************************************************************************)
\* the two requests are in the same provider with the same parameters
SameParams ==
    /\ call[1].prov \in CallPcs
    /\ call[1].prov = call[2].prov
    /\ call[1].key = call[2].key

\* neither invocation fails, one that waits can always go on, and what the cache holds
\* under the key is a result one of them returned
C33_BothReturnFromTheEntry ==
    SameParams =>
        /\ \A r \in Reqs :
              /\ call[r].state # "threw"
              /\ call[r].state = "await" => ENABLED ConcStep(r)
              /\ call[r].state = "returned" => call[r].ret # Undefined
        /\ call[1].key \in DOMAIN store =>
              \E r \in Reqs : /\ call[r].state = "returned"
                              /\ store[call[1].key].value = call[r].ret
        /\ (\A r \in Reqs : call[r].state = "returned") => call[1].key \in DOMAIN store

\* an invocation that returns on a miss leaves its result in the cache, whatever was there
C33_LastWriterWins ==
    \A r \in Reqs :
        (/\ SameParams'
         /\ call[r].state # "returned"
         /\ call'[r].state = "returned"
         /\ call'[r].tier # "cache")
        => store'[call'[r].key] = CacheRecord(call'[r].ret, now + DefaultTtl)

C33_InterleavedInvocations == []C33_BothReturnFromTheEntry /\ [][C33_LastWriterWins]_vars

\* both searches missed the cache and made their own live calls, which brought different
\* fares; the second to finish left its result in the cache
C33_Witness ==
    /\ SameParams
    /\ call[1].prov = "flights"
    /\ \A r \in Reqs : /\ call[r].state = "returned"
                       /\ call[r].cachedBefore = Undefined
                       /\ call[r].tier = "live"
                       /\ call[r].ext = <<"token", "offers">>
    /\ call[1].ret # call[2].ret
    /\ store[call[1].key].value = call[2].ret
    /\ now = 0


(***************************************************************************)
(* C39: every top-level tool call starts with its own empty provenance     *)
(* set: a tag added during one request never appears in the metadata of    *)
(* another request, also when requests interleave on the shared cache, and *)
(* a request's meta.providers and meta.cached depend only on the tags      *)
(* added by its own provider calls.                                        *)
(***************************************************************************)
\* the tags the provider calls of request r added
OwnTags(r) == call[r].own \cup call[r].nested

\* the metadata of an answered request are those of its own tags
C39_MetaFromOwnTags ==
    \A r \in Reqs :
        (pc[r] = "done" /\ resp[r].status = "ok") =>
            LET meta_r == resp[r].result.meta
                named == {tag \in OwnTags(r) : ~startsWithCache(tag)}
            IN /\ Range(ctx[r]) = OwnTags(r)
               /\ meta_r.cached = (\E tag \in OwnTags(r) : startsWithCache(tag))
               /\ Range(meta_r.providers) =
                     IF named = {} THEN { <<"mock-data">> }
                     ELSE {formatProviderName(tag) : tag \in named}

\* a call starts with an empty set, and a step of one request leaves the set and the
\* answer of the other alone
C39_Step ==
    \A r \in Reqs :
        pc'[r] # pc[r] =>
            /\ pc[r] = "idle" => ctx'[r] = << >>
            /\ \A q \in Reqs \ {r} :
                  ctx'[q] = ctx[q] /\ resp'[q] = resp[q] /\ call'[q] = call[q]

C39_RequestsHaveTheirOwnProvenance == []C39_MetaFromOwnTags /\ [][C39_Step]_vars

\* two searches with the same parameters overlapped; one is answered with the live source
\* alone and the other with the mock source alone
C39_Witness ==
    /\ pc[1] = "done" /\ pc[2] = "done"
    /\ SameParams
    /\ call[1].cachedBefore = Undefined /\ call[2].cachedBefore = Undefined
    /\ now = 0
    /\ ctx[1] = << <<"amadeus">> >>
    /\ ctx[2] = << <<"flights", "mock">> >>
    /\ resp[1].result.meta.providers = << formatProviderName(<<"amadeus">>) >>
    /\ resp[2].result.meta.providers = << formatProviderName(<<"flights", "mock">>) >>
    /\ ~resp[1].result.meta.cached /\ ~resp[2].result.meta.cached

=============================================================================
